---------------------------- MODULE Spec2Model ----------------------------
(***************************************************************************)
(* A model of the Styx parser for Python (styx-py): the lexer              *)
(* (styx/lexer.py), the recursive-descent parser and its document-level    *)
(* path tracker PathState (styx/parser.py).                                *)
(*                                                                         *)
(* Characters are their Unicode code points, strings are sequences of      *)
(* code points.  Positions are 0-based as in the source: the character at  *)
(* position p of src is src[p + 1].                                        *)
(***************************************************************************)
EXTENDS Integers, Sequences, FiniteSets, TLC

VARIABLES
    source,         \* Lexer.source / Parser.source
    pos,            \* Lexer.pos: character position
    byte_pos,       \* Lexer.byte_pos: byte position
    current,        \* Parser.current (the last token returned, in the lexer runs)
    peeked,         \* Parser.peeked
    entries,        \* parse(): the local list `entries`
    start,          \* parse(): the local `start`
    current_path,   \* PathState.current_path
    closed_paths,   \* PathState.closed_paths
    assigned_paths, \* PathState.assigned_paths
    pc,             \* where the run is
    outcome,        \* what the last operation returned or raised
    history         \* the calls made so far (what the claims speak about)

vars == <<source, pos, byte_pos, current, peeked, entries, start,
          current_path, closed_paths, assigned_paths, pc, outcome, history>>

(***************************************************************************)
(* Characters.                                                             *)
(***************************************************************************)
OrdTab ==
    ("a" :> 97) @@ ("b" :> 98) @@ ("c" :> 99) @@ ("d" :> 100) @@ ("x" :> 120)
    @@ ("y" :> 121) @@ ("r" :> 114) @@ ("n" :> 110) @@ ("t" :> 116) @@ ("u" :> 117)
    @@ ("q" :> 113) @@ ("Z" :> 90) @@ ("E" :> 69) @@ ("A" :> 65) @@ ("F" :> 70)
    @@ ("0" :> 48) @@ ("1" :> 49) @@ ("2" :> 50) @@ ("4" :> 52) @@ ("9" :> 57)
    @@ ("{" :> 123) @@ ("}" :> 125) @@ ("(" :> 40) @@ (")" :> 41) @@ ("," :> 44)
    @@ ("\"" :> 34) @@ (">" :> 62) @@ (" " :> 32) @@ ("\t" :> 9) @@ ("\n" :> 10)
    @@ ("\r" :> 13) @@ ("@" :> 64) @@ ("<" :> 60) @@ ("/" :> 47) @@ ("#" :> 35)
    @@ ("\\" :> 92) @@ ("." :> 46) @@ ("_" :> 95) @@ ("-" :> 45) @@ ("+" :> 43)
    @@ ("=" :> 61) @@ ("X" :> 88) @@ ("e'" :> 233) @@ ("E'" :> 201)
    @@ ("N" :> 78) @@ ("D" :> 68) @@ ("h" :> 104) @@ ("e" :> 101) @@ ("l" :> 108)
    @@ ("o" :> 111)

\* The code point of a character written as a TLA+ string ("e'" is U+00E9,
\* "E'" is U+00C9: two bytes each in UTF-8).
Ord(c) == OrdTab[c]

RECURSIVE Str(_)
\* A string written as a tuple of characters.
Str(cs) == IF cs = <<>> THEN <<>> ELSE <<Ord(Head(cs))>> \o Str(Tail(cs))

\* A local variable: v is computed once and named by the parameter of F.
Bind(v, F(_)) == F(v)

\* lexer.py _peek/_advance return "" at the end of the source.
NoChar == -1

\* len(ch.encode("utf-8"))
Utf8Len(ch) ==
    IF ch < 128 THEN 1 ELSE IF ch < 2048 THEN 2 ELSE IF ch < 65536 THEN 3 ELSE 4

RECURSIVE Utf8LenOf(_)
\* len(s.encode("utf-8"))
Utf8LenOf(s) == IF s = <<>> THEN 0 ELSE Utf8Len(Head(s)) + Utf8LenOf(Tail(s))

Span(s, e) == [start |-> s, end |-> e]

\* SPECIAL_CHARS
SPECIAL_CHARS ==
    {Ord("{"), Ord("}"), Ord("("), Ord(")"), Ord(","), Ord("\""), Ord(">"),
     Ord(" "), Ord("\t"), Ord("\n"), Ord("\r")}

IsAsciiUpper(ch) == ch >= 65 /\ ch <= 90
IsAsciiLower(ch) == ch >= 97 /\ ch <= 122
IsDigit(ch) == ch >= 48 /\ ch <= 57

\* str.isupper() of one character: the ASCII capitals and, of the characters
\* beyond ASCII that the model writes, U+00C9.
IsUpper(ch) == IsAsciiUpper(ch) \/ ch = Ord("E'")

\* TAG_START_RE = [A-Za-z_]
IsTagStart(ch) == IsAsciiUpper(ch) \/ IsAsciiLower(ch) \/ ch = Ord("_")

\* TAG_CHAR_RE = [A-Za-z0-9_\-]
IsTagChar(ch) == IsTagStart(ch) \/ IsDigit(ch) \/ ch = Ord("-")

(***************************************************************************)
(* Results.  A call returns a value or raises: ok is FALSE when it raised, *)
(* and err holds the exception.  lx is the lexer's state (pos, byte_pos)   *)
(* when the call ended.                                                    *)
(***************************************************************************)
\* An error message: its fixed text, the path or character it quotes, and the
\* token types it names.
Msg(text, path, toks) == [text |-> text, path |-> path, toks |-> toks]

NoErr == [exc |-> "none", msg |-> Msg("", <<>>, <<>>), span |-> Span(0, 0)]

\* raise ParseError(message, span)
ParseError(msg, span) == [exc |-> "ParseError", msg |-> msg, span |-> span]

\* An exception other than ParseError (int() and chr() raise ValueError).
ValueError(what) == [exc |-> "ValueError", msg |-> Msg(what, <<>>, <<>>), span |-> Span(0, 0)]

Token(type, text, span, ws, nl) ==
    [type |-> type, text |-> text, span |-> span,
     had_whitespace_before |-> ws, had_newline_before |-> nl]

\* Parser.peeked = None
NoToken == Token("none", <<>>, Span(0, 0), FALSE, FALSE)

Lx(p, b) == [pos |-> p, byte_pos |-> b]

LexOk(tok, lx) == [ok |-> TRUE, tok |-> tok, err |-> NoErr, lx |-> lx]
LexFail(err, lx) == [ok |-> FALSE, tok |-> NoToken, err |-> err, lx |-> lx]

(***************************************************************************)
(* The lexer.                                                              *)
(***************************************************************************)
\* Lexer._peek(offset)
LPeek(src, lx, offset) ==
    IF lx.pos + offset >= Len(src) THEN NoChar ELSE src[lx.pos + offset + 1]

\* an _advance that counts four bytes for every character
LAdvanceFourBytes(src, lx) ==
    IF lx.pos >= Len(src) THEN lx ELSE Lx(lx.pos + 1, lx.byte_pos + 4)

\* Lexer._advance(): the lexer state after it
LAdvance(src, lx) ==
    IF lx.pos >= Len(src) THEN lx
    ELSE Lx(lx.pos + 1, lx.byte_pos + Utf8Len(src[lx.pos + 1]))

RECURSIVE LAdvanceN(_, _, _)
LAdvanceN(src, lx, n) == IF n = 0 THEN lx ELSE LAdvanceN(src, LAdvance(src, lx), n - 1)

RECURSIVE SkipComment(_, _)
\* the inner loop of _skip_whitespace_and_comments: to the end of the line
SkipComment(src, lx) ==
    IF lx.pos < Len(src) /\ LPeek(src, lx, 0) # Ord("\n")
    THEN SkipComment(src, LAdvance(src, lx))
    ELSE lx

RECURSIVE SkipWsNewlineApart(_, _, _, _)
\* a _skip_whitespace_and_comments that takes a newline for no whitespace
SkipWsNewlineApart(src, lx, ws, nl) ==
    IF lx.pos >= Len(src) THEN [lx |-> lx, ws |-> ws, nl |-> nl]
    ELSE Bind(LPeek(src, lx, 0), LAMBDA ch :
         IF ch \in {Ord(" "), Ord("\t"), Ord("\r")}
         THEN SkipWsNewlineApart(src, LAdvance(src, lx), TRUE, nl)
         ELSE IF ch = Ord("\n")
         THEN SkipWsNewlineApart(src, LAdvance(src, lx), ws, TRUE)
         ELSE IF ch = Ord("/") /\ LPeek(src, lx, 1) = Ord("/")
         THEN SkipWsNewlineApart(src, SkipComment(src, lx), TRUE, nl)
         ELSE [lx |-> lx, ws |-> ws, nl |-> nl])

RECURSIVE SkipWs(_, _, _, _)
\* Lexer._skip_whitespace_and_comments
SkipWs(src, lx, ws, nl) ==
    IF lx.pos >= Len(src) THEN [lx |-> lx, ws |-> ws, nl |-> nl]
    ELSE Bind(LPeek(src, lx, 0), LAMBDA ch :
         IF ch \in {Ord(" "), Ord("\t"), Ord("\r")}
         THEN SkipWs(src, LAdvance(src, lx), TRUE, nl)
         ELSE IF ch = Ord("\n")
         THEN SkipWs(src, LAdvance(src, lx), TRUE, TRUE)
         ELSE IF ch = Ord("/") /\ LPeek(src, lx, 1) = Ord("/")
         THEN SkipWs(src, SkipComment(src, lx), TRUE, nl)
         ELSE [lx |-> lx, ws |-> ws, nl |-> nl])

(***************************************************************************)
(* Strings: the library calls the lexer and the parser make.               *)
(***************************************************************************)
RECURSIVE SplitAcc(_, _, _)
SplitAcc(s, sep, acc) ==
    IF s = <<>> THEN <<acc>>
    ELSE IF Head(s) = sep THEN <<acc>> \o SplitAcc(Tail(s), sep, <<>>)
    ELSE SplitAcc(Tail(s), sep, Append(acc, Head(s)))

\* str.split(sep) for a separator of one character: never an empty list
Split(s, sep) == SplitAcc(s, sep, <<>>)

RECURSIVE Join(_, _)
\* sep.join(parts)
Join(parts, sep) ==
    IF parts = <<>> THEN <<>>
    ELSE IF Len(parts) = 1 THEN parts[1]
    ELSE parts[1] \o <<sep>> \o Join(Tail(parts), sep)

RECURSIVE LStrip(_)
\* str.lstrip(" \t")
LStrip(s) ==
    IF s # <<>> /\ Head(s) \in {Ord(" "), Ord("\t")} THEN LStrip(Tail(s)) ELSE s

\* the characters int() strips from both ends of its argument
IsPySpace(ch) == ch \in {Ord(" "), Ord("\t"), Ord("\n"), Ord("\r"), 11, 12}

RECURSIVE StripLeft(_)
StripLeft(s) == IF s # <<>> /\ IsPySpace(Head(s)) THEN StripLeft(Tail(s)) ELSE s

RECURSIVE StripRight(_)
StripRight(s) ==
    IF s # <<>> /\ IsPySpace(s[Len(s)]) THEN StripRight(SubSeq(s, 1, Len(s) - 1)) ELSE s

\* the value of a base-16 digit, -1 for any other character
HexVal(ch) ==
    IF IsDigit(ch) THEN ch - 48
    ELSE IF ch >= 97 /\ ch <= 102 THEN ch - 87
    ELSE IF ch >= 65 /\ ch <= 70 THEN ch - 55
    ELSE -1

RECURSIVE HexDigits(_, _, _)
\* digit ("_"? digit)* read from s: [ok, val]; prevDigit says whether the
\* character before s was a digit, acc is the value read so far
HexDigits(s, prevDigit, acc) ==
    IF s = <<>> THEN [ok |-> prevDigit, val |-> acc]
    ELSE IF HexVal(Head(s)) >= 0 THEN HexDigits(Tail(s), TRUE, acc * 16 + HexVal(Head(s)))
    ELSE IF Head(s) = Ord("_") /\ prevDigit /\ Tail(s) # <<>> /\ HexVal(s[2]) >= 0
    THEN HexDigits(Tail(s), FALSE, acc)
    ELSE [ok |-> FALSE, val |-> 0]

\* int(hex_str, 16): [ok, val], ok FALSE when it raises ValueError.  Python
\* strips whitespace, takes a sign, takes a 0x or 0X prefix (and one "_"
\* after it), then digits with single underscores between them.
PyInt16(hex_str) ==
    Bind(StripRight(StripLeft(hex_str)), LAMBDA s0 :
    Bind(s0 # <<>> /\ Head(s0) \in {Ord("+"), Ord("-")}, LAMBDA signed :
    Bind(s0 # <<>> /\ Head(s0) = Ord("-"), LAMBDA neg :
    Bind(IF signed THEN Tail(s0) ELSE s0, LAMBDA s1 :
    Bind(Len(s1) >= 2 /\ s1[1] = Ord("0") /\ s1[2] \in {Ord("x"), Ord("X")}, LAMBDA prefixed :
    Bind(IF prefixed THEN SubSeq(s1, 3, Len(s1)) ELSE s1, LAMBDA s2 :
    Bind(IF prefixed /\ s2 # <<>> /\ Head(s2) = Ord("_") THEN Tail(s2) ELSE s2, LAMBDA s3 :
    Bind(HexDigits(s3, FALSE, 0), LAMBDA d :
    [ok |-> d.ok, val |-> IF neg THEN 0 - d.val ELSE d.val]))))))))

\* chr(i) raises ValueError outside range(0x110000)
MaxCodePoint == 1114111

(***************************************************************************)
(* Lexer._read_unicode_escape: [ok, ch, err, lx]                           *)
(***************************************************************************)
RECURSIVE ReadBraced(_, _, _)
\* while self._peek() != "}" and self.pos < len(self.source): hex_str += ...
ReadBraced(src, lx, hex_str) ==
    IF LPeek(src, lx, 0) # Ord("}") /\ lx.pos < Len(src)
    THEN ReadBraced(src, LAdvance(src, lx), Append(hex_str, LPeek(src, lx, 0)))
    ELSE [lx |-> lx, hex_str |-> hex_str]

RECURSIVE ReadFour(_, _, _, _)
\* for _ in range(4): hex_str += self._advance()
ReadFour(src, lx, hex_str, n) ==
    IF n = 0 THEN [lx |-> lx, hex_str |-> hex_str]
    ELSE ReadFour(src, LAdvance(src, lx),
                  IF lx.pos < Len(src) THEN Append(hex_str, LPeek(src, lx, 0)) ELSE hex_str,
                  n - 1)

\* chr(int(hex_str, 16))
ChrOfHex(hex_str, lx) ==
    Bind(PyInt16(hex_str), LAMBDA i :
    IF ~i.ok THEN [ok |-> FALSE, ch |-> NoChar, err |-> ValueError("int"), lx |-> lx]
    ELSE IF i.val < 0 \/ i.val > MaxCodePoint
    THEN [ok |-> FALSE, ch |-> NoChar, err |-> ValueError("chr"), lx |-> lx]
    ELSE [ok |-> TRUE, ch |-> i.val, err |-> NoErr, lx |-> lx])

ReadUnicodeEscape(src, lx) ==
    IF LPeek(src, lx, 0) = Ord("{")
    THEN Bind(ReadBraced(src, LAdvance(src, lx), <<>>), LAMBDA r :
         ChrOfHex(r.hex_str, LAdvance(src, r.lx)))
    ELSE Bind(ReadFour(src, lx, <<>>, 4), LAMBDA r :
         ChrOfHex(r.hex_str, r.lx))

(***************************************************************************)
(* Lexer._read_quoted_string                                               *)
(***************************************************************************)
RECURSIVE ReadQuotedLoop(_, _, _, _, _, _)
ReadQuotedLoop(src, lx, start0, text, ws, nl) ==
    IF lx.pos >= Len(src)
    THEN LexFail(ParseError(Msg("unexpected token", <<>>, <<>>), Span(start0, lx.byte_pos)), lx)
    ELSE Bind(LPeek(src, lx, 0), LAMBDA ch :
         IF ch = Ord("\"")
         THEN Bind(LAdvance(src, lx), LAMBDA l1 :
              LexOk(Token("quoted", text, Span(start0, l1.byte_pos), ws, nl), l1))
         ELSE IF ch = Ord("\\")
         THEN Bind(lx.byte_pos, LAMBDA escape_start :
              Bind(LAdvance(src, lx), LAMBDA l1 :
              Bind(LPeek(src, l1, 0), LAMBDA escaped :
              Bind(LAdvance(src, l1), LAMBDA l2 :
              IF escaped = Ord("n")
              THEN ReadQuotedLoop(src, l2, start0, Append(text, Ord("\n")), ws, nl)
              ELSE IF escaped = Ord("r")
              THEN ReadQuotedLoop(src, l2, start0, Append(text, Ord("\r")), ws, nl)
              ELSE IF escaped = Ord("t")
              THEN ReadQuotedLoop(src, l2, start0, Append(text, Ord("\t")), ws, nl)
              ELSE IF escaped = Ord("\\")
              THEN ReadQuotedLoop(src, l2, start0, Append(text, Ord("\\")), ws, nl)
              ELSE IF escaped = Ord("\"")
              THEN ReadQuotedLoop(src, l2, start0, Append(text, Ord("\"")), ws, nl)
              ELSE IF escaped = Ord("u")
              THEN Bind(ReadUnicodeEscape(src, l2), LAMBDA u :
                   IF u.ok
                   THEN ReadQuotedLoop(src, u.lx, start0, Append(text, u.ch), ws, nl)
                   ELSE LexFail(u.err, u.lx))
              ELSE LexFail(ParseError(
                       Msg("invalid escape sequence", IF escaped = NoChar THEN <<>> ELSE <<escaped>>, <<>>),
                       Span(escape_start, l2.byte_pos)), l2)))))
         ELSE IF ch \in {Ord("\n"), Ord("\r")}
         THEN Bind(LAdvance(src, lx), LAMBDA l1 :
              Bind(IF ch = Ord("\r") /\ LPeek(src, l1, 0) = Ord("\n")
                                      THEN LAdvance(src, l1) ELSE l1, LAMBDA l2 :
              LexFail(ParseError(Msg("unexpected token", <<>>, <<>>), Span(start0, l2.byte_pos)), l2)))
         ELSE ReadQuotedLoop(src, LAdvance(src, lx), start0, Append(text, ch), ws, nl))

ReadQuotedString(src, lx, start0, ws, nl) ==
    ReadQuotedLoop(src, LAdvance(src, lx), start0, <<>>, ws, nl)

(***************************************************************************)
(* Lexer._read_raw_string                                                  *)
(***************************************************************************)
RECURSIVE CountHashes(_, _, _)
\* while self._peek() == "#": self._advance(); hashes += 1
CountHashes(src, lx, hashes) ==
    IF LPeek(src, lx, 0) = Ord("#")
    THEN CountHashes(src, LAdvance(src, lx), hashes + 1)
    ELSE [lx |-> lx, hashes |-> hashes]

\* self.source[a:b] for 0 <= a
Slice(src, a, b) ==
    Bind(IF b > Len(src) THEN Len(src) ELSE b, LAMBDA e :
    IF a >= e THEN <<>> ELSE SubSeq(src, a + 1, e))

\* a closing pattern without the hashes
ClosePatternQuote(hashes) == <<Ord("\"")>>

\* '"' + "#" * hashes
ClosePattern(hashes) == <<Ord("\"")>> \o [i \in 1..hashes |-> Ord("#")]

RECURSIVE ReadRawLoop(_, _, _, _, _, _, _)
ReadRawLoop(src, lx, start0, text, close_pattern, ws, nl) ==
    IF lx.pos >= Len(src)
    THEN LexFail(ParseError(Msg("unclosed raw string", <<>>, <<>>), Span(start0, lx.byte_pos)), lx)
    ELSE IF Slice(src, lx.pos, lx.pos + Len(close_pattern)) = close_pattern
    THEN Bind(LAdvanceN(src, lx, Len(close_pattern)), LAMBDA l1 :
         LexOk(Token("raw", text, Span(start0, l1.byte_pos), ws, nl), l1))
    ELSE ReadRawLoop(src, LAdvance(src, lx), start0, Append(text, LPeek(src, lx, 0)),
                     close_pattern, ws, nl)

ReadRawString(src, lx, start0, ws, nl) ==
    Bind(CountHashes(src, LAdvance(src, lx), 0), LAMBDA h :
    ReadRawLoop(src, LAdvance(src, h.lx), start0, <<>>, ClosePattern(h.hashes), ws, nl))

(***************************************************************************)
(* Lexer._read_heredoc and Lexer._dedent_heredoc                           *)
(***************************************************************************)
RECURSIVE ReadLine(_, _, _)
\* while self.pos < len(self.source) and self._peek() != "\n": line += ...
ReadLine(src, lx, line) ==
    IF lx.pos < Len(src) /\ LPeek(src, lx, 0) # Ord("\n")
    THEN ReadLine(src, LAdvance(src, lx), Append(line, LPeek(src, lx, 0)))
    ELSE [lx |-> lx, line |-> line]

RECURSIVE StripCount(_, _, _)
\* how many leading characters of line _dedent_heredoc strips
StripCount(line, indent_len, stripped) ==
    IF line = <<>> \/ stripped >= indent_len THEN stripped
    ELSE IF Head(line) \in {Ord(" "), Ord("\t")}
    THEN StripCount(Tail(line), indent_len, stripped + 1)
    ELSE stripped

\* a dedent that strips every leading space and tab
DedentLineAll(line, indent_len) == LStrip(line)

\* result.append(line[stripped:])
DedentLine(line, indent_len) ==
    SubSeq(line, StripCount(line, indent_len, 0) + 1, Len(line))

DedentHeredoc(content, indent_len) ==
    Bind(Split(content, Ord("\n")), LAMBDA lines :
    Join([i \in 1..Len(lines) |-> DedentLine(lines[i], indent_len)], Ord("\n")))

RECURSIVE ReadHeredocLoop(_, _, _, _, _, _, _, _)
ReadHeredocLoop(src, lx, start0, content_start, text, bare_delimiter, ws, nl) ==
    IF lx.pos >= Len(src)
    THEN LexFail(ParseError(Msg("unexpected token", <<>>, <<>>),
                            Span(content_start, lx.byte_pos)), lx)
    ELSE Bind(ReadLine(src, lx, <<>>), LAMBDA r :
         Bind(r.line, LAMBDA line :
         Bind(LStrip(line), LAMBDA stripped :
         IF line = bare_delimiter
         THEN LexOk(Token("heredoc", text, Span(start0, r.lx.byte_pos), ws, nl), r.lx)
         ELSE IF stripped = bare_delimiter
         THEN LexOk(Token("heredoc", DedentHeredoc(text, Len(line) - Len(stripped)),
                          Span(start0, r.lx.byte_pos), ws, nl), r.lx)
         ELSE IF r.lx.pos < Len(src) /\ LPeek(src, r.lx, 0) = Ord("\n")
         THEN ReadHeredocLoop(src, LAdvance(src, r.lx), start0, content_start,
                              Append(text \o line, Ord("\n")), bare_delimiter, ws, nl)
         ELSE ReadHeredocLoop(src, r.lx, start0, content_start,
                              text \o line, bare_delimiter, ws, nl))))

ReadHeredoc(src, lx, start0, ws, nl) ==
    Bind(ReadLine(src, LAdvanceN(src, lx, 2), <<>>), LAMBDA d :
    Bind(IF d.lx.pos < Len(src) THEN LAdvance(src, d.lx) ELSE d.lx, LAMBDA l1 :
    ReadHeredocLoop(src, l1, start0, l1.byte_pos, <<>>,
                    Split(d.line, Ord(","))[1], ws, nl)))

(***************************************************************************)
(* Lexer._read_bare_scalar                                                 *)
(***************************************************************************)
RECURSIVE ReadBareLoop(_, _, _)
ReadBareLoop(src, lx, text) ==
    IF lx.pos < Len(src) /\ LPeek(src, lx, 0) \notin SPECIAL_CHARS
    THEN ReadBareLoop(src, LAdvance(src, lx), Append(text, LPeek(src, lx, 0)))
    ELSE [lx |-> lx, text |-> text]

ReadBareScalar(src, lx, start0, ws, nl) ==
    Bind(ReadBareLoop(src, lx, <<>>), LAMBDA r :
    LexOk(Token("scalar", r.text, Span(start0, r.lx.byte_pos), ws, nl), r.lx))

(***************************************************************************)
(* Lexer.next_token                                                        *)
(***************************************************************************)
RECURSIVE ReadTagName(_, _)
\* while self._is_tag_char(self._peek()): self._advance()
ReadTagName(src, lx) ==
    IF LPeek(src, lx, 0) # NoChar /\ IsTagChar(LPeek(src, lx, 0))
    THEN ReadTagName(src, LAdvance(src, lx))
    ELSE lx

\* the type of the token a single character makes, "" for no such character
SingleCharType(ch) ==
    IF ch = Ord("{") THEN "lbrace"
    ELSE IF ch = Ord("}") THEN "rbrace"
    ELSE IF ch = Ord("(") THEN "lparen"
    ELSE IF ch = Ord(")") THEN "rparen"
    ELSE IF ch = Ord(",") THEN "comma"
    ELSE IF ch = Ord(">") THEN "gt"
    ELSE ""

NextToken(src, lx0) ==
    Bind(SkipWs(src, lx0, FALSE, FALSE), LAMBDA sk :
    Bind(sk.lx, LAMBDA lx :
    Bind(sk.ws, LAMBDA ws :
    Bind(sk.nl, LAMBDA nl :
    Bind(lx.byte_pos, LAMBDA start0 :
    Bind(LPeek(src, lx, 0), LAMBDA ch :
    IF lx.pos >= Len(src)
    THEN LexOk(Token("eof", <<>>, Span(lx.byte_pos, lx.byte_pos), ws, nl), lx)
    ELSE IF SingleCharType(ch) # ""
    THEN Bind(LAdvance(src, lx), LAMBDA l1 :
         LexOk(Token(SingleCharType(ch), <<ch>>, Span(start0, l1.byte_pos), ws, nl), l1))
    ELSE IF ch = Ord("@")
    THEN Bind(LAdvance(src, lx), LAMBDA l1 :
         IF LPeek(src, l1, 0) # NoChar /\ IsTagStart(LPeek(src, l1, 0))
         THEN Bind(ReadTagName(src, l1), LAMBDA l2 :
              LexOk(Token("tag", Slice(src, l1.pos, l2.pos),
                          Span(start0, l2.byte_pos), ws, nl), l2))
         ELSE LexOk(Token("at", <<ch>>, Span(start0, l1.byte_pos), ws, nl), l1))
    ELSE IF ch = Ord("\"")
    THEN ReadQuotedString(src, lx, start0, ws, nl)
    ELSE IF ch = Ord("r") /\ LPeek(src, lx, 1) \in {Ord("\""), Ord("#")}
    THEN ReadRawString(src, lx, start0, ws, nl)
    ELSE IF ch = Ord("<") /\ LPeek(src, lx, 1) = Ord("<")
    THEN IF LPeek(src, lx, 2) # NoChar /\ IsUpper(LPeek(src, lx, 2))
         THEN ReadHeredoc(src, lx, start0, ws, nl)
         ELSE Bind(LAdvanceN(src, lx, 2), LAMBDA l2 :
              LexFail(ParseError(Msg("unexpected token", <<>>, <<>>),
                                 Span(start0, l2.byte_pos)),
                      SkipComment(src, l2)))
    ELSE ReadBareScalar(src, lx, start0, ws, nl)))))))

(***************************************************************************)
(* The tree (styx/types.py).                                               *)
(***************************************************************************)
\* Value.tag = None
NoTag == [present |-> FALSE, name |-> <<>>, span |-> Span(0, 0)]

Tag(name, span) == [present |-> TRUE, name |-> name, span |-> span]

\* Value.payload = None
NoPayload ==
    [kind |-> "none", text |-> <<>>, skind |-> "", span |-> Span(0, 0),
     items |-> <<>>, entries |-> <<>>]

Scalar(text, kind, span) ==
    [kind |-> "scalar", text |-> text, skind |-> kind, span |-> span,
     items |-> <<>>, entries |-> <<>>]

Sequence(items, span) ==
    [kind |-> "sequence", text |-> <<>>, skind |-> "", span |-> span,
     items |-> items, entries |-> <<>>]

StyxObject(es, span) ==
    [kind |-> "object", text |-> <<>>, skind |-> "", span |-> span,
     items |-> <<>>, entries |-> es]

Value(span, tag, payload) == [span |-> span, tag |-> tag, payload |-> payload]

Entry(key, value) == [key |-> key, value |-> value]

Document(es, span) == [entries |-> es, span |-> span]

\* Span(-1, -1): the span of a key that is not in the source
SyntheticSpan == Span(0 - 1, 0 - 1)

(***************************************************************************)
(* PathState.                                                              *)
(***************************************************************************)
PathState(cur, closed, assigned) ==
    [current_path |-> cur, closed_paths |-> closed, assigned_paths |-> assigned]

\* PathState.__init__
EmptyPathState == PathState(<<>>, {}, <<>>)

\* ".".join(path[:n])
JoinPrefix(path, n) == Join(SubSeq(path, 1, n), Ord("."))

RECURSIVE CheckPrefixesNoClosed(_, _, _, _)
\* a step 2 that does not look at closed_paths
CheckPrefixesNoClosed(pst, path, span, i) ==
    IF i >= Len(path) THEN NoErr
    ELSE IF JoinPrefix(path, i) \in DOMAIN pst.assigned_paths
            /\ pst.assigned_paths[JoinPrefix(path, i)].kind = "terminal"
    THEN ParseError(Msg("cannot nest into", JoinPrefix(path, i), <<>>), span)
    ELSE CheckPrefixesNoClosed(pst, path, span, i + 1)

RECURSIVE CheckPrefixes(_, _, _, _)
\* step 2 of check_and_update, from prefix length i on: the error it raises,
\* NoErr when it raises none
CheckPrefixes(pst, path, span, i) ==
    IF i >= Len(path) THEN NoErr
    ELSE Bind(JoinPrefix(path, i), LAMBDA prefix :
         IF prefix \in pst.closed_paths
         THEN ParseError(Msg("cannot reopen path", prefix, <<>>), span)
         ELSE IF prefix \in DOMAIN pst.assigned_paths
                 /\ pst.assigned_paths[prefix].kind = "terminal"
         THEN ParseError(Msg("cannot nest into", prefix, <<>>), span)
         ELSE CheckPrefixes(pst, path, span, i + 1))

RECURSIVE CommonLen(_, _, _)
\* step 3: the length of the common prefix of path and current_path
CommonLen(path, cur, i) ==
    IF i < Len(path) /\ i < Len(cur) /\ path[i + 1] = cur[i + 1]
    THEN CommonLen(path, cur, i + 1)
    ELSE i

\* a check_and_update that closes nothing
DivergentNone(cur, common_len) == {}

\* step 4: the paths closed
Divergent(cur, common_len) == {JoinPrefix(cur, i + 1) : i \in common_len..(Len(cur) - 1)}

\* steps 5 and 6 with a step 5 that records every prefix anew
RecordAnew(assigned, path, span, kind) ==
    Bind({JoinPrefix(path, i + 1) : i \in 0..(Len(path) - 2)}, LAMBDA prefixes :
    Bind(Join(path, Ord(".")), LAMBDA full_path :
    [p \in DOMAIN assigned \cup prefixes \cup {full_path} |->
        IF p = full_path THEN [kind |-> kind, span |-> span]
        ELSE IF p \in prefixes THEN [kind |-> "object", span |-> span]
        ELSE assigned[p]]))

\* steps 5 and 6: assigned_paths after them
Record(assigned, path, span, kind) ==
    Bind({JoinPrefix(path, i + 1) : i \in 0..(Len(path) - 2)}, LAMBDA prefixes :
    Bind(Join(path, Ord(".")), LAMBDA full_path :
    [p \in DOMAIN assigned \cup prefixes \cup {full_path} |->
        IF p = full_path THEN [kind |-> kind, span |-> span]
        ELSE IF p \in DOMAIN assigned THEN assigned[p]
        ELSE [kind |-> "object", span |-> span]]))

\* a check_and_update without step 1: a recorded full path is taken again
CheckAndUpdateNoStepOne(pst, path, span, kind) ==
    IF CheckPrefixes(pst, path, span, 1) # NoErr
    THEN [ok |-> FALSE, pst |-> pst, err |-> CheckPrefixes(pst, path, span, 1)]
    ELSE [ok |-> TRUE,
          pst |-> PathState(
              path,
              pst.closed_paths
                  \cup Divergent(pst.current_path, CommonLen(path, pst.current_path, 0)),
              Record(pst.assigned_paths, path, span, kind)),
          err |-> NoErr]

\* PathState.check_and_update: [ok, pst, err]
CheckAndUpdate(pst, path, span, kind) ==
    Bind(Join(path, Ord(".")), LAMBDA full_path :
    Bind(CheckPrefixes(pst, path, span, 1), LAMBDA prefix_err :
    IF full_path \in DOMAIN pst.assigned_paths
    THEN IF pst.assigned_paths[full_path].kind = "terminal"
         THEN [ok |-> FALSE, pst |-> pst,
               err |-> ParseError(Msg("duplicate key", <<>>, <<>>), span)]
         ELSE [ok |-> FALSE, pst |-> pst,
               err |-> ParseError(Msg("cannot reopen path", full_path, <<>>), span)]
    ELSE IF prefix_err # NoErr
    THEN [ok |-> FALSE, pst |-> pst, err |-> prefix_err]
    ELSE [ok |-> TRUE,
          pst |-> PathState(
              path,
              pst.closed_paths
                  \cup Divergent(pst.current_path, CommonLen(path, pst.current_path, 0)),
              Record(pst.assigned_paths, path, span, kind)),
          err |-> NoErr]))

(***************************************************************************)
(* The parser.  ps is the parser's state: the lexer's state, `current`     *)
(* and `peeked`.  A call returns [ok, ps, val, err].                       *)
(***************************************************************************)
Ps(lx, cur, pk) == [lx |-> lx, current |-> cur, peeked |-> pk]

POk(ps, val) == [ok |-> TRUE, ps |-> ps, val |-> val, err |-> NoErr]
PFail(ps, err) == [ok |-> FALSE, ps |-> ps, val |-> NoToken, err |-> err]

\* A loop that would run for ever: an iteration that ends in the state it
\* began in.
Diverges == [exc |-> "Diverges", msg |-> Msg("", <<>>, <<>>), span |-> Span(0, 0)]

\* Parser.__init__: [ok, ps, val, err]
NewParser(src) ==
    Bind(NextToken(src, Lx(0, 0)), LAMBDA r :
    IF r.ok THEN POk(Ps(r.lx, r.tok, NoToken), r.tok)
    ELSE PFail(Ps(r.lx, NoToken, NoToken), r.err))

\* Parser._advance: val is the token consumed
PAdvance(src, ps) ==
    IF ps.peeked # NoToken
    THEN POk(Ps(ps.lx, ps.peeked, NoToken), ps.current)
    ELSE Bind(NextToken(src, ps.lx), LAMBDA r :
         IF r.ok THEN POk(Ps(r.lx, r.tok, NoToken), ps.current)
         ELSE PFail(Ps(r.lx, ps.current, ps.peeked), r.err))

\* Parser._peek: val is the token after `current`
PPeek(src, ps) ==
    IF ps.peeked # NoToken
    THEN POk(ps, ps.peeked)
    ELSE Bind(NextToken(src, ps.lx), LAMBDA r :
         IF r.ok THEN POk(Ps(r.lx, ps.current, r.tok), r.tok)
         ELSE PFail(Ps(r.lx, ps.current, ps.peeked), r.err))

RECURSIVE Self(_, _, _, _)
\* self.<method>(...): Self(method, src, ps, a) is the call of a method of the
\* parser in state ps; a is the method's argument, <<>> when it has none.
\* It is defined after the methods.

\* Parser._check
Check(ps, types) == ps.current.type \in types

\* Parser._expect
Expect(src, ps, token_type) ==
    IF ps.current.type # token_type
    THEN PFail(ps, ParseError(Msg("expected", <<>>, <<token_type, ps.current.type>>),
                              ps.current.span))
    ELSE Self("_advance", src, ps, <<>>)

RECURSIVE SkipCommas(_, _)
\* while self._check(TokenType.COMMA): self._advance()
SkipCommas(src, ps) ==
    IF Check(ps, {"comma"})
    THEN Bind(Self("_advance", src, ps, <<>>), LAMBDA r :
         IF r.ok THEN SkipCommas(src, r.ps) ELSE r)
    ELSE POk(ps, NoToken)

\* Parser._parse_scalar
ParseScalar(src, ps) ==
    Bind(ps.current, LAMBDA token :
    IF token.type \notin {"scalar", "quoted", "raw", "heredoc"}
    THEN PFail(ps, ParseError(Msg("expected", <<>>, <<"scalar", token.type>>), token.span))
    ELSE Bind(Self("_advance", src, ps, <<>>), LAMBDA r :
         Bind(IF token.type = "scalar" THEN "bare" ELSE token.type, LAMBDA kind :
         IF r.ok THEN POk(r.ps, Scalar(token.text, kind, token.span)) ELSE r)))

\* Parser._get_key_text: [some, text]; some is FALSE for None
GetKeyText(key) ==
    IF key.payload.kind = "scalar" THEN [some |-> TRUE, text |-> key.payload.text]
    ELSE IF key.tag.present /\ key.payload.kind = "none"
    THEN [some |-> TRUE, text |-> <<Ord("@")>> \o key.tag.name]
    ELSE [some |-> FALSE, text |-> <<>>]

RECURSIVE FindChar(_, _, _)
\* str.find(ch): the index of the first ch in s from index i on, -1 if none
FindChar(s, ch, i) ==
    IF i >= Len(s) THEN 0 - 1
    ELSE IF s[i + 1] = ch THEN i
    ELSE FindChar(s, ch, i + 1)

\* Parser._heredoc_start_span: the span's byte offsets index the characters
\* of self.source
HeredocStartSpan(src, heredoc_span) ==
    Bind(Slice(src, heredoc_span.start, heredoc_span.end), LAMBDA text :
    Bind(FindChar(text, Ord("\n"), 0), LAMBDA newline_idx :
    Bind(IF newline_idx >= 0 THEN newline_idx + 1 ELSE Len(text), LAMBDA end_offset :
    Span(heredoc_span.start, heredoc_span.start + end_offset))))

\* Parser._validate_key: the error it raises, NoErr when it raises none
ValidateKey(src, key) ==
    IF key.payload.kind = "sequence"
    THEN ParseError(Msg("invalid key", <<>>, <<>>), key.span)
    ELSE IF key.payload.kind = "scalar" /\ key.payload.skind = "heredoc"
    THEN ParseError(Msg("invalid key", <<>>, <<>>), HeredocStartSpan(src, key.payload.span))
    ELSE NoErr

RECURSIVE SegmentSpans(_, _)
\* the spans of the segments of a dotted path that starts at byte `offset`
SegmentSpans(segments, offset) ==
    IF segments = <<>> THEN <<>>
    ELSE Bind(Utf8LenOf(Head(segments)), LAMBDA n :
         <<Span(offset, offset + n)>> \o SegmentSpans(Tail(segments), offset + n + 1))

SegmentKey(segments, segment_spans, i) ==
    Value(segment_spans[i], NoTag, Scalar(segments[i], "bare", segment_spans[i]))

\* an expansion that nests nothing
NestWithStateFlat(segments, segment_spans, result, i) == result

RECURSIVE NestWithState(_, _, _, _)
\* the loop of _expand_dotted_path_with_state, for i (1-based) down to 2
NestWithState(segments, segment_spans, result, i) ==
    IF i < 2 THEN result
    ELSE Bind(Span(segment_spans[i - 1].start, segment_spans[Len(segments)].end), LAMBDA obj_span :
         NestWithState(segments, segment_spans,
             Value(obj_span, NoTag,
                   StyxObject(<<Entry(SegmentKey(segments, segment_spans, i), result)>>,
                              obj_span)),
             i - 1))

RECURSIVE Nest(_, _, _, _, _)
\* the loop of _expand_dotted_path, for i (1-based) down to 2
Nest(segments, segment_spans, span, result, i) ==
    IF i < 2 THEN result
    ELSE Nest(segments, segment_spans, span,
              Value(span, NoTag,
                    StyxObject(<<Entry(SegmentKey(segments, segment_spans, i), result)>>, span)),
              i - 1)

HasEmptySegment(segments) == \E i \in 1..Len(segments) : segments[i] = <<>>

HasDot(text) == \E i \in 1..Len(text) : text[i] = Ord(".")

\* What an entry parser returns: none is TRUE for `return None`; seen is the
\* object's seen_keys (or the document's PathState) after the call.
EOk(ps, entry, seen) ==
    [ok |-> TRUE, ps |-> ps, none |-> FALSE, val |-> entry, seen |-> seen, err |-> NoErr]
ENone(ps, seen) ==
    [ok |-> TRUE, ps |-> ps, none |-> TRUE, val |-> NoToken, seen |-> seen, err |-> NoErr]
EFail(ps, seen, err) ==
    [ok |-> FALSE, ps |-> ps, none |-> FALSE, val |-> NoToken, seen |-> seen, err |-> err]

\* a scalar token taken as a quoted scalar
BareValueAsQuoted(token) == Value(token.span, NoTag, Scalar(token.text, "quoted", token.span))

\* Value(span=token.span, payload=Scalar(token.text, ScalarKind.BARE, token.span))
BareValue(token) == Value(token.span, NoTag, Scalar(token.text, "bare", token.span))

\* seen_keys[key] = span
Seen(seen_keys, key, span) ==
    [k \in DOMAIN seen_keys \cup {key} |-> IF k = key THEN span ELSE seen_keys[k]]

\* the tokens that end a value: EOF, }, ) and ,
\* the terminators without the comma
TerminatorsNoComma == {"eof", "rbrace", "rparen"}

Terminators == {"eof", "rbrace", "rparen", "comma"}

RECURSIVE AttributeLoop(_, _, _, _)
RECURSIVE ObjectLoop(_, _, _, _)
RECURSIVE SequenceLoop(_, _, _)

\* Parser._parse_object
ParseObject(src, ps) ==
    Bind(Expect(src, ps, "lbrace"), LAMBDA e :
    IF ~e.ok THEN e
    ELSE Bind(e.val, LAMBDA open_brace :
         Bind(ObjectLoop(src, e.ps, <<>>, <<>>), LAMBDA l :
         IF ~l.ok THEN l
         ELSE IF Check(l.ps, {"eof"})
         THEN PFail(l.ps, ParseError(Msg("unclosed object", <<>>, <<>>), open_brace.span))
         ELSE Bind(Expect(src, l.ps, "rbrace"), LAMBDA c :
              IF ~c.ok THEN c
              ELSE POk(c.ps, StyxObject(l.val, Span(open_brace.span.start,
                                                    c.val.span.end)))))))

\* the while loop of _parse_object: val is the list of entries
ObjectLoop(src, ps, es, seen_keys) ==
    IF Check(ps, {"rbrace", "eof"}) THEN POk(ps, es)
    ELSE Bind(Self("_parse_entry_with_dup_check", src, ps, seen_keys), LAMBDA r :
         IF ~r.ok THEN PFail(r.ps, r.err)
         ELSE Bind(IF Check(r.ps, {"comma"}) THEN Self("_advance", src, r.ps, <<>>)
                                     ELSE POk(r.ps, NoToken), LAMBDA c :
              IF ~c.ok THEN c
              ELSE IF c.ps = ps THEN PFail(ps, Diverges)
              ELSE ObjectLoop(src, c.ps, IF r.none THEN es ELSE Append(es, r.val),
                              r.seen)))

\* Parser._parse_sequence
ParseSequence(src, ps) ==
    Bind(Expect(src, ps, "lparen"), LAMBDA e :
    IF ~e.ok THEN e
    ELSE Bind(e.val, LAMBDA open_paren :
         Bind(SequenceLoop(src, e.ps, <<>>), LAMBDA l :
         IF ~l.ok THEN l
         ELSE IF Check(l.ps, {"eof"})
         THEN PFail(l.ps, ParseError(Msg("unclosed sequence", <<>>, <<>>), open_paren.span))
         ELSE Bind(Expect(src, l.ps, "rparen"), LAMBDA c :
              IF ~c.ok THEN c
              ELSE POk(c.ps, Sequence(l.val, Span(open_paren.span.start,
                                                  c.val.span.end)))))))

\* the while loop of _parse_sequence: val is the list of items
SequenceLoop(src, ps, items) ==
    IF Check(ps, {"rparen", "eof"}) THEN POk(ps, items)
    ELSE IF Check(ps, {"comma"})
    THEN PFail(ps, ParseError(Msg("unexpected comma in sequence", <<>>, <<>>), ps.current.span))
    ELSE Bind(Self("_parse_value", src, ps, <<>>), LAMBDA v :
         IF ~v.ok THEN v
         ELSE IF v.ps = ps THEN PFail(ps, Diverges)
         ELSE SequenceLoop(src, v.ps, Append(items, v.val)))

\* Parser._parse_tag_value
ParseTagValue(src, ps) ==
    Bind(ps.current.span.start, LAMBDA start0 :
    Bind(Self("_advance", src, ps, <<>>), LAMBDA a :
    IF ~a.ok THEN a
    ELSE Bind(a.val, LAMBDA tag_token :
         Bind(Tag(tag_token.text, tag_token.span), LAMBDA tag :
         Bind(a.ps, LAMBDA p :
         IF ~p.current.had_whitespace_before /\ Check(p, {"lbrace"})
         THEN Bind(Self("_parse_object", src, p, <<>>), LAMBDA o :
              IF o.ok THEN POk(o.ps, Value(o.val.span, tag, o.val)) ELSE o)
         ELSE IF ~p.current.had_whitespace_before /\ Check(p, {"lparen"})
         THEN Bind(Self("_parse_sequence", src, p, <<>>), LAMBDA q :
              IF q.ok THEN POk(q.ps, Value(q.val.span, tag, q.val)) ELSE q)
         ELSE IF ~p.current.had_whitespace_before
                 /\ Check(p, {"quoted", "raw", "heredoc"})
         THEN Bind(Self("_parse_scalar", src, p, <<>>), LAMBDA c :
              IF c.ok THEN POk(c.ps, Value(c.val.span, tag, c.val)) ELSE c)
         ELSE IF ~p.current.had_whitespace_before /\ Check(p, {"at"})
         THEN Bind(Self("_advance", src, p, <<>>), LAMBDA t :
              IF t.ok THEN POk(t.ps, Value(t.val.span, tag, NoPayload)) ELSE t)
         ELSE IF ~p.current.had_whitespace_before /\ ~Check(p, Terminators)
         THEN PFail(p, ParseError(Msg("invalid tag name", <<>>, <<>>),
                                  Span(start0, p.current.span.end)))
         ELSE POk(p, Value(Span(start0, tag_token.span.end), tag, NoPayload)))))))

\* Parser._parse_attribute_value
ParseAttributeValue(src, ps) ==
    IF Check(ps, {"lbrace"})
    THEN Bind(Self("_parse_object", src, ps, <<>>), LAMBDA o :
         IF o.ok THEN POk(o.ps, Value(o.val.span, NoTag, o.val)) ELSE o)
    ELSE IF Check(ps, {"lparen"})
    THEN Bind(Self("_parse_sequence", src, ps, <<>>), LAMBDA q :
         IF q.ok THEN POk(q.ps, Value(q.val.span, NoTag, q.val)) ELSE q)
    ELSE IF Check(ps, {"tag"}) THEN Self("_parse_tag_value", src, ps, <<>>)
    ELSE IF Check(ps, {"at"})
    THEN Bind(Self("_advance", src, ps, <<>>), LAMBDA t :
         IF t.ok THEN POk(t.ps, Value(t.val.span, NoTag, NoPayload)) ELSE t)
    ELSE Bind(Self("_parse_scalar", src, ps, <<>>), LAMBDA c :
         IF c.ok THEN POk(c.ps, Value(c.val.span, NoTag, c.val)) ELSE c)

\* Parser._parse_attributes_starting_with
ParseAttributesStartingWith(src, ps, first_key_token) ==
    Bind(Expect(src, ps, "gt"), LAMBDA g :
    IF ~g.ok THEN g
    ELSE Bind(Self("_parse_attribute_value", src, g.ps, <<>>), LAMBDA first_value :
         IF ~first_value.ok THEN first_value
         ELSE Bind(AttributeLoop(src, first_value.ps,
                                                   <<Entry(BareValue(first_key_token), first_value.val)>>,
                                                   first_value.val.span), LAMBDA l :
              IF ~l.ok THEN l
              ELSE Bind(StyxObject(l.val.attrs,
                                                                Span(first_key_token.span.start,
                                                                     l.val.end_span.end)), LAMBDA obj :
                   POk(l.ps, Value(obj.span, NoTag, obj))))))

\* a while loop that takes no pair after the first
AttributeLoopNever(src, ps, attrs, end_span) ==
    POk(ps, [attrs |-> attrs, end_span |-> end_span])

\* the while loop of _parse_attributes_starting_with: val is [attrs, end_span]
AttributeLoop(src, ps, attrs, end_span) ==
    IF ~(Check(ps, {"scalar"}) /\ ~ps.current.had_newline_before)
    THEN POk(ps, [attrs |-> attrs, end_span |-> end_span])
    ELSE Bind(ps.current, LAMBDA key_token :
         Bind(Self("_peek", src, ps, <<>>), LAMBDA pk :
         IF ~pk.ok THEN pk
         ELSE IF pk.val.type # "gt" \/ pk.val.had_whitespace_before
         THEN POk(pk.ps, [attrs |-> attrs, end_span |-> end_span])
         ELSE Bind(Self("_advance", src, pk.ps, <<>>), LAMBDA a1 :
              IF ~a1.ok THEN a1
              ELSE Bind(Self("_advance", src, a1.ps, <<>>), LAMBDA a2 :
                   IF ~a2.ok THEN a2
                   ELSE Bind(Self("_parse_attribute_value", src, a2.ps, <<>>), LAMBDA v :
                        IF ~v.ok THEN v
                        ELSE AttributeLoop(src, v.ps,
                                 Append(attrs, Entry(BareValue(key_token), v.val)),
                                 v.val.span))))))

\* Parser._parse_value
ParseValue(src, ps) ==
    IF Check(ps, {"at"})
    THEN Bind(Self("_advance", src, ps, <<>>), LAMBDA a :
         IF ~a.ok THEN a
         ELSE IF ~a.ps.current.had_whitespace_before
                 /\ ~Check(a.ps, Terminators \cup {"lbrace", "lparen"})
         THEN PFail(a.ps, ParseError(Msg("invalid tag name", <<>>, <<>>),
                                     Span(a.val.span.start, a.ps.current.span.end)))
         ELSE POk(a.ps, Value(Span(a.val.span.start, a.val.span.end), NoTag, NoPayload)))
    ELSE IF Check(ps, {"tag"}) THEN Self("_parse_tag_value", src, ps, <<>>)
    ELSE IF Check(ps, {"lbrace"})
    THEN Bind(Self("_parse_object", src, ps, <<>>), LAMBDA o :
         IF o.ok THEN POk(o.ps, Value(o.val.span, NoTag, o.val)) ELSE o)
    ELSE IF Check(ps, {"lparen"})
    THEN Bind(Self("_parse_sequence", src, ps, <<>>), LAMBDA q :
         IF q.ok THEN POk(q.ps, Value(q.val.span, NoTag, q.val)) ELSE q)
    ELSE IF Check(ps, {"scalar"})
    THEN Bind(Self("_advance", src, ps, <<>>), LAMBDA a :
         IF ~a.ok THEN a
         ELSE IF a.ps.current.type = "gt" /\ ~a.ps.current.had_whitespace_before
         THEN Bind(Self("_peek", src, a.ps, <<>>), LAMBDA pk :
              IF ~pk.ok THEN pk
              ELSE IF ~pk.val.had_newline_before /\ pk.val.type # "eof"
              THEN Self("_parse_attributes_starting_with", src, pk.ps, a.val)
              ELSE POk(pk.ps, BareValue(a.val)))
         ELSE POk(a.ps, BareValue(a.val)))
    ELSE Bind(Self("_parse_scalar", src, ps, <<>>), LAMBDA c :
         IF c.ok THEN POk(c.ps, Value(c.val.span, NoTag, c.val)) ELSE c)

\* an _expand_dotted_path without the check of the first segment
ExpandDottedPathNoCheck(src, ps, path_text, span, seen_keys) ==
    Bind(Split(path_text, Ord(".")), LAMBDA segments :
    IF HasEmptySegment(segments)
    THEN EFail(ps, seen_keys, ParseError(Msg("invalid key", <<>>, <<>>), span))
    ELSE Bind(Seen(seen_keys, segments[1], span), LAMBDA seen :
         Bind(SegmentSpans(segments, span.start), LAMBDA segment_spans :
         Bind(Self("_parse_value", src, ps, <<>>), LAMBDA v :
         IF ~v.ok THEN EFail(v.ps, seen, v.err)
         ELSE EOk(v.ps,
                  Entry(SegmentKey(segments, segment_spans, 1),
                        Nest(segments, segment_spans, span, v.val, Len(segments))),
                  seen)))))

\* Parser._expand_dotted_path
ExpandDottedPath(src, ps, path_text, span, seen_keys) ==
    Bind(Split(path_text, Ord(".")), LAMBDA segments :
    IF HasEmptySegment(segments)
    THEN EFail(ps, seen_keys, ParseError(Msg("invalid key", <<>>, <<>>), span))
    ELSE IF segments[1] \in DOMAIN seen_keys
    THEN EFail(ps, seen_keys, ParseError(Msg("duplicate key", <<>>, <<>>), span))
    ELSE Bind(Seen(seen_keys, segments[1], span), LAMBDA seen :
         Bind(SegmentSpans(segments, span.start), LAMBDA segment_spans :
         Bind(Self("_parse_value", src, ps, <<>>), LAMBDA v :
         IF ~v.ok THEN EFail(v.ps, seen, v.err)
         ELSE EOk(v.ps,
                  Entry(SegmentKey(segments, segment_spans, 1),
                        Nest(segments, segment_spans, span, v.val, Len(segments))),
                  seen)))))

\* Parser._parse_entry_with_dup_check
ParseEntryWithDupCheck(src, ps0, seen_keys) ==
    Bind(SkipCommas(src, ps0), LAMBDA sc :
    IF ~sc.ok THEN EFail(sc.ps, seen_keys, sc.err)
    ELSE Bind(sc.ps, LAMBDA ps :
         IF Check(ps, {"gt"})
    THEN EFail(ps, seen_keys, ParseError(Msg("expected a value", <<>>, <<>>), ps.current.span))
    ELSE IF Check(ps, {"eof", "rbrace"}) THEN ENone(ps, seen_keys)
    ELSE Bind(Self("_parse_value", src, ps, <<>>), LAMBDA k :
         IF ~k.ok THEN EFail(k.ps, seen_keys, k.err)
    ELSE Bind(k.val, LAMBDA key :
         IF key.payload.kind = "object"
    THEN IF ~k.ps.current.had_newline_before /\ ~Check(k.ps, {"eof", "rbrace", "comma"})
         THEN Bind(Self("_parse_value", src, k.ps, <<>>), LAMBDA d :
              IF ~d.ok THEN EFail(d.ps, seen_keys, d.err)
              ELSE EOk(d.ps, Entry(Value(SyntheticSpan, NoTag, NoPayload), key), seen_keys))
         ELSE EOk(k.ps, Entry(Value(SyntheticSpan, NoTag, NoPayload), key), seen_keys)
    ELSE IF key.payload.kind = "scalar" /\ key.payload.skind = "bare" /\ HasDot(key.payload.text)
    THEN ExpandDottedPath(src, k.ps, key.payload.text, key.span, seen_keys)
    ELSE Bind(GetKeyText(key), LAMBDA key_text :
         IF key_text.some /\ key_text.text \in DOMAIN seen_keys
    THEN EFail(k.ps, seen_keys, ParseError(Msg("duplicate key", <<>>, <<>>), key.span))
    ELSE Bind(IF key_text.some THEN Seen(seen_keys, key_text.text, key.span)
                              ELSE seen_keys, LAMBDA seen :
         IF ValidateKey(src, key) # NoErr THEN EFail(k.ps, seen, ValidateKey(src, key))
    ELSE IF k.ps.current.had_newline_before \/ Check(k.ps, {"eof", "rbrace"})
    THEN EOk(k.ps, Entry(key, Value(key.span, NoTag, NoPayload)), seen)
    ELSE Bind(Self("_parse_value", src, k.ps, <<>>), LAMBDA v :
         IF ~v.ok THEN EFail(v.ps, seen, v.err)
         ELSE EOk(v.ps, Entry(key, v.val), seen))))))))

(***************************************************************************)
(* Document level.  An entry parser at document level returns, with the    *)
(* fields of EOk, `call`: the check_and_update call it made, if any.       *)
(***************************************************************************)
NoCall == [made |-> FALSE, path |-> <<>>, span |-> Span(0, 0), kind |-> ""]
Call(path, span, kind) == [made |-> TRUE, path |-> path, span |-> span, kind |-> kind]

WithCall(r, call) ==
    [ok |-> r.ok, ps |-> r.ps, none |-> r.none, val |-> r.val, seen |-> r.seen,
     err |-> r.err, call |-> call]

\* path_state.check_and_update(path, span, kind), then `return entry`
CheckThenReturn(ps, pst, path, span, kind, entry) ==
    Bind(CheckAndUpdate(pst, path, span, kind), LAMBDA c :
    WithCall(IF c.ok THEN EOk(ps, entry, c.pst) ELSE EFail(ps, pst, c.err),
             Call(path, span, kind)))

\* PathValueKind of a value
KindOf(value) == IF value.payload.kind = "object" THEN "object" ELSE "terminal"

\* Parser._expand_dotted_path_with_state
ExpandDottedPathWithState(src, ps, path_text, span, pst) ==
    Bind(Split(path_text, Ord(".")), LAMBDA segments :
    IF HasEmptySegment(segments)
    THEN WithCall(EFail(ps, pst, ParseError(Msg("invalid key", <<>>, <<>>), span)), NoCall)
    ELSE Bind(SegmentSpans(segments, span.start), LAMBDA segment_spans :
         Bind(Self("_parse_value", src, ps, <<>>), LAMBDA v :
         IF ~v.ok THEN WithCall(EFail(v.ps, pst, v.err), NoCall)
         ELSE CheckThenReturn(v.ps, pst, segments, span, KindOf(v.val),
                  Entry(SegmentKey(segments, segment_spans, 1),
                        NestWithState(segments, segment_spans, v.val, Len(segments)))))))

\* Parser._parse_entry_with_path_check
ParseEntryWithPathCheck(src, ps0, pst) ==
    Bind(SkipCommas(src, ps0), LAMBDA sc :
    IF ~sc.ok THEN WithCall(EFail(sc.ps, pst, sc.err), NoCall)
    ELSE Bind(sc.ps, LAMBDA ps :
         IF Check(ps, {"gt"})
    THEN WithCall(EFail(ps, pst, ParseError(Msg("expected a value", <<>>, <<>>),
                                            ps.current.span)), NoCall)
    ELSE IF Check(ps, {"eof", "rbrace"}) THEN WithCall(ENone(ps, pst), NoCall)
    ELSE Bind(Self("_parse_value", src, ps, <<>>), LAMBDA k :
         IF ~k.ok THEN WithCall(EFail(k.ps, pst, k.err), NoCall)
    ELSE Bind(k.val, LAMBDA key :
         IF key.payload.kind = "object"
    THEN IF ~k.ps.current.had_newline_before /\ ~Check(k.ps, {"eof", "rbrace", "comma"})
         THEN Bind(Self("_parse_value", src, k.ps, <<>>), LAMBDA d :
              IF ~d.ok THEN WithCall(EFail(d.ps, pst, d.err), NoCall)
              ELSE WithCall(EOk(d.ps, Entry(Value(SyntheticSpan, NoTag, NoPayload), key),
                                pst), NoCall))
         ELSE WithCall(EOk(k.ps, Entry(Value(SyntheticSpan, NoTag, NoPayload), key), pst),
                       NoCall)
    ELSE IF key.payload.kind = "scalar" /\ key.payload.skind = "bare" /\ HasDot(key.payload.text)
    THEN ExpandDottedPathWithState(src, k.ps, key.payload.text, key.span, pst)
    ELSE Bind(GetKeyText(key), LAMBDA key_text :
         IF ValidateKey(src, key) # NoErr
    THEN WithCall(EFail(k.ps, pst, ValidateKey(src, key)), NoCall)
    ELSE IF k.ps.current.had_newline_before \/ Check(k.ps, {"eof", "rbrace"})
    THEN IF key_text.some
         THEN CheckThenReturn(k.ps, pst, <<key_text.text>>, key.span, "terminal",
                              Entry(key, Value(key.span, NoTag, NoPayload)))
         ELSE WithCall(EOk(k.ps, Entry(key, Value(key.span, NoTag, NoPayload)), pst), NoCall)
    ELSE Bind(Self("_parse_value", src, k.ps, <<>>), LAMBDA v :
         IF ~v.ok THEN WithCall(EFail(v.ps, pst, v.err), NoCall)
         ELSE IF key_text.some
         THEN CheckThenReturn(v.ps, pst, <<key_text.text>>, key.span, KindOf(v.val),
                              Entry(key, v.val))
         ELSE WithCall(EOk(v.ps, Entry(key, v.val), pst), NoCall)))))))

\* the method of the parser that a call names
Self(method, src, ps, a) ==
    CASE method = "_advance" -> PAdvance(src, ps)
      [] method = "_peek" -> PPeek(src, ps)
      [] method = "_parse_scalar" -> ParseScalar(src, ps)
      [] method = "_parse_object" -> ParseObject(src, ps)
      [] method = "_parse_sequence" -> ParseSequence(src, ps)
      [] method = "_parse_tag_value" -> ParseTagValue(src, ps)
      [] method = "_parse_attribute_value" -> ParseAttributeValue(src, ps)
      [] method = "_parse_attributes_starting_with" -> ParseAttributesStartingWith(src, ps, a)
      [] method = "_parse_value" -> ParseValue(src, ps)
      [] method = "_parse_entry_with_dup_check" -> ParseEntryWithDupCheck(src, ps, a)
      [] method = "_parse_entry_with_path_check" -> ParseEntryWithPathCheck(src, ps, a)

\* a skip that consumes nothing
SkipToEofNothing(src, ps) == POk(ps, NoToken)

RECURSIVE SkipToEof(_, _)
\* while not self._check(TokenType.EOF): self._advance()
SkipToEof(src, ps) ==
    IF Check(ps, {"eof"}) THEN POk(ps, NoToken)
    ELSE Bind(Self("_advance", src, ps, <<>>), LAMBDA a :
         IF a.ok THEN SkipToEof(src, a.ps) ELSE a)

\* Parser.parse, the branch of an explicit root object: val is the Document
ParseExplicitRoot(src, ps, start0) ==
    Bind(Self("_parse_object", src, ps, <<>>), LAMBDA o :
    IF ~o.ok THEN o
    ELSE Bind(<<Entry(Value(SyntheticSpan, NoTag, NoPayload),
                                    Value(o.val.span, NoTag, o.val))>>, LAMBDA es :
         Bind(SkipCommas(src, o.ps), LAMBDA sc :
         IF ~sc.ok THEN sc
         ELSE IF ~Check(sc.ps, {"eof"})
         THEN Bind(SkipToEof(src, sc.ps), LAMBDA t :
              IF ~t.ok THEN t
              ELSE PFail(t.ps, ParseError(
                       Msg("trailing content after explicit root object", <<>>, <<>>),
                       Span(sc.ps.current.span.start, t.ps.current.span.start))))
         ELSE POk(sc.ps, Document(es, Span(start0, sc.ps.current.span.end))))))

(***************************************************************************)
(* PathState on its own: any sequence of check_and_update calls that the   *)
(* parser can make.  _parse_entry_with_path_check passes [key_text], the   *)
(* text of a bare or quoted key (a quoted key may hold dots), and          *)
(* _expand_dotted_path_with_state passes the non-empty segments of a       *)
(* dotted bare key.                                                        *)
(***************************************************************************)
MaxCalls == 3

SegA == Str(<<"a">>)
SegB == Str(<<"b">>)
QuotedAB == Str(<<"a", ".", "b">>)

\* key paths of dotted and undotted bare keys over the segments a and b
BarePaths ==
    {<<x>> : x \in {SegA, SegB}}
    \cup {<<x, y>> : x \in {SegA, SegB}, y \in {SegA, SegB}}
    \cup {<<x, y, z>> : x \in {SegA}, y \in {SegA, SegB}, z \in {SegA, SegB}}

\* the path of the quoted key "a.b"
QuotedPaths == {<<QuotedAB>>}

PathKinds == {"object", "terminal"}

\* one call of check_and_update, as the history keeps it
CallRecord(path, span, kind, before, r) ==
    [path |-> path, span |-> span, kind |-> kind, before |-> before,
     ok |-> r.ok, err |-> r.err]

ThePathState == PathState(current_path, closed_paths, assigned_paths)

\* what an operation gave: nothing yet, a Document returned, an exception raised
NoOutcome == [ok |-> TRUE, returned |-> FALSE, doc |-> Document(<<>>, Span(0, 0)), err |-> NoErr]
Returned(doc) == [ok |-> TRUE, returned |-> TRUE, doc |-> doc, err |-> NoErr]
Raised(err) == [ok |-> FALSE, returned |-> FALSE, doc |-> Document(<<>>, Span(0, 0)), err |-> err]

IdleParser ==
    /\ source = <<>>
    /\ pos = 0
    /\ byte_pos = 0
    /\ current = NoToken
    /\ peeked = NoToken
    /\ entries = <<>>
    /\ start = 0

InitPath ==
    /\ IdleParser
    /\ current_path = EmptyPathState.current_path
    /\ closed_paths = EmptyPathState.closed_paths
    /\ assigned_paths = EmptyPathState.assigned_paths
    /\ pc = "path_state"
    /\ outcome = NoOutcome
    /\ history = <<>>

\* path_state.check_and_update(path, span, kind); a call that raises leaves
\* the PathState as it was (steps 1 and 2 only read it)
DoCheckAndUpdate(path, kind) ==
    /\ pc = "path_state"
    /\ Len(history) < MaxCalls
    /\ \E span \in {Span(2 * Len(history), 2 * Len(history) + 1)} :
       \E r \in {CheckAndUpdate(ThePathState, path, span, kind)} :
        /\ current_path' = r.pst.current_path
        /\ closed_paths' = r.pst.closed_paths
        /\ assigned_paths' = r.pst.assigned_paths
        /\ outcome' = IF r.ok THEN NoOutcome ELSE Raised(r.err)
        /\ history' = Append(history, CallRecord(path, span, kind, ThePathState, r))
        /\ UNCHANGED <<source, pos, byte_pos, current, peeked, entries, start, pc>>

CheckAndUpdateBare == \E path \in BarePaths, kind \in PathKinds : DoCheckAndUpdate(path, kind)

CheckAndUpdateQuoted == \E path \in QuotedPaths, kind \in PathKinds : DoCheckAndUpdate(path, kind)

NextPath == CheckAndUpdateBare \/ CheckAndUpdateQuoted

SpecPath == InitPath /\ [][NextPath]_vars

(***************************************************************************)
(* Properties of PathState.                                                *)
(***************************************************************************)
\* q is a proper prefix of the stored path p: assigned_paths keeps a path as
\* its segments joined by "."
IsProperPrefixKey(q, p) ==
    /\ Len(q) < Len(p)
    /\ SubSeq(p, 1, Len(q)) = q
    /\ p[Len(q) + 1] = Ord(".")

\* the proper prefixes of the stored path p
ProperPrefixKeys(p) == {SubSeq(p, 1, n - 1) : n \in {m \in 1..Len(p) : p[m] = Ord(".")}}

\* q is a prefix of the path p, both lists of segments
IsPrefix(q, p) == Len(q) <= Len(p) /\ SubSeq(p, 1, Len(q)) = q

\* C3: PathState soundness.  After any sequence of check_and_update calls,
\* every stored proper prefix of a stored path has kind object, and every
\* proper prefix of a stored path is stored.
C3_PathStateSoundness ==
    \A p \in DOMAIN assigned_paths :
        /\ \A q \in DOMAIN assigned_paths :
               IsProperPrefixKey(q, p) => assigned_paths[q].kind = "object"
        /\ ProperPrefixKeys(p) \subseteq DOMAIN assigned_paths

\* C4: no reopening after a sibling, no extension of a terminal.  Of the
\* calls made so far: when call i was accepted with path P, a later call j
\* was accepted with a path that does not have the non-empty prefix Q of P
\* as a prefix, then every later call k whose path has Q as a prefix is
\* rejected; and when call i was accepted with a terminal path T, every
\* later call whose path has T as a proper prefix is rejected.
C4_NoReopenNoExtend ==
    \A i, k \in 1..Len(history) :
        (i < k /\ history[i].ok) =>
            /\ \A j \in (i + 1)..(k - 1), n \in 1..Len(history[i].path) :
                   LET Q == SubSeq(history[i].path, 1, n)
                   IN  (/\ history[j].ok
                        /\ ~IsPrefix(Q, history[j].path)
                        /\ IsPrefix(Q, history[k].path)) => ~history[k].ok
            /\ (/\ history[i].kind = "terminal"
                /\ IsPrefix(history[i].path, history[k].path)
                /\ history[i].path # history[k].path) => ~history[k].ok

\* a.b was accepted, the sibling b was accepted, and a.a was then rejected
\* because a is closed
C4_Witness ==
    /\ Len(history) = 3
    /\ history[1].ok /\ history[1].path = <<SegA, SegB>>
    /\ history[2].ok /\ history[2].path = <<SegB>>
    /\ ~history[3].ok /\ history[3].path = <<SegA, SegA>>
    /\ history[3].err.msg = Msg("cannot reopen path", SegA, <<>>)

(***************************************************************************)
(* The parser on whole documents: Parser(source).parse(), one step per     *)
(* piece of parse() so that the document-level loop is seen iteration by   *)
(* iteration.                                                              *)
(***************************************************************************)
MaxFrags == 2

\* the documents of spec.md's examples and of the cases of the properties
DocTwoEntries == Str(<<"a", " ", "1", "\n", "b", " ", "2", "\n">>)
DocTwoEquals == Str(<<"a", " ", "=", " ", "1", "\n", "b", " ", "=", " ", "2", "\n">>)
DocNestEquals ==
    Str(<<"a", ".", "b", " ", "=", " ", "1", "\n",
          "a", ".", "b", ".", "c", " ", "=", " ", "2", "\n">>)
DocNest == Str(<<"a", ".", "b", " ", "1", "\n", "a", ".", "b", ".", "c", " ", "2", "\n">>)
DocShared ==
    Str(<<"a", ".", "b", ".", "c", " ", "1", "\n", "a", ".", "b", ".", "d", " ", "2", "\n">>)
DocSharedEquals ==
    Str(<<"a", ".", "b", ".", "c", " ", "=", " ", "1", "\n",
          "a", ".", "b", ".", "d", " ", "=", " ", "2", "\n">>)
DocDupThird == Str(<<"a", " ", "1", "\n", "b", " ", "2", "\n", "a", " ", "2", "\n">>)
DocDupEquals == Str(<<"a", " ", "=", " ", "1", "\n", "a", " ", "=", " ", "2", "\n">>)
DocRBrace == Str(<<"}">>)
DocKeyRBrace == Str(<<"a", " ", "}">>)
DocRParen == Str(<<")">>)
DocAttrs == Str(<<"a", ">", "1", " ", "a", ">", "2">>)
DocDotted == Str(<<"a", ".", "b", " ", "1">>)
DocTagged == Str(<<"@", "t", "{", "}">>)
DocRootDotted ==
    Str(<<"{", "a", ".", "b", " ", "1", ",", " ", "a", ".", "c", " ", "2", "}">>)
DocQuotedAlias == Str(<<"\"", "a", ".", "b", "\"", " ", "{", "}", "\n", "a", " ", "1">>)

DocRootTrailingQuote == Str(<<"{", "}", " ", "\"", "a">>)
DocRootTrailingLate == Str(<<"{", "}", "a", " ", "\"", "b">>)
DocRootCommas == Str(<<",", "{", "a", "}", ",", ",", " ">>)
DocRootCommaQuote == Str(<<"{", "}", ",", "\"", "a">>)
DocRootRBrace == Str(<<"{", "}", "\n", "}">>)
DocDottedNewline == Str(<<"a", ".", "b", "\n", "c", " ", "1">>)
DocDottedEof == Str(<<"a", ".", "b">>)
DocUnits == Str(<<"a", "\n", "\"", "b", "\"", "\n", "r", "\"", "c", "\"">>)
DocUnicodeDotted == Str(<<"e'", ".", "b", " ", "e'">>)
DocUnicodeHeredocKey ==
    Str(<<"e'", " ", "1", "\n", "<", "<", "E", "\n", "x", "\n", "E", "\n">>)
DocUnicodeTag == Str(<<"@", "t", "e'", " ", "@", "e'">>)
DocAttrsValue ==
    Str(<<"b", " ", "a", ">", "1", " ", "b", ">", "(", "a", ")", " ", "c", ">", "@">>)
    \o Str(<<" ", "d", ">", "@", "t", " ", "e", ">", "{", "a", " ", "1", "}">>)
DocAttrsSpaced == Str(<<"a", ">", "1", " ", "b", " ", ">", "2">>)
DocAttrsNewline == Str(<<"a", ">", "1", "\n", "b", ">", "2", " ", "c", ">", "\n", "1">>)
DocAttrsEof == Str(<<"b", " ", "a", ">">>)
DocAttrsLate == Str(<<"a", ">", "\n", "1">>)
DocAttrsSpaceBefore == Str(<<"a", " ", ">", "1">>)
DocAttrsRParen == Str(<<"a", ">", ")">>)
DocAttrsQuote == Str(<<"a", ">", "\"", "b">>)
DocAttrsChain == Str(<<"a", ">", "b", ">", "c">>)
DocAttrsTrailing == Str(<<"a", ">", "1", " ", "b", "\n", "c", ">", " ", "r", "\"", "a", "\"">>)
DocTagForms ==
    Str(<<"@", "t", " ", "@", "a", "\"", "b", "\"", " ", "@", "b", "@">>)
DocTagComma == Str(<<"@", "t", ",">>)
DocTagDot == Str(<<"a", " ", "@", "t", ".", "a">>)
DocTagGt == Str(<<"@", "t", ">", "1">>)
DocTagTag == Str(<<"@", "t", "@", "a">>)
DocTagHeredoc == Str(<<"a", " ", "@", "t", "<", "<", "E", "\n", "x", "\n", "E", "\n">>)
DocTagSequence == Str(<<"a", " ", "@", "t", "(", "b", ")", " ", "@", "a">>)
DocTagRParen == Str(<<"@", "t", ")">>)
DocTagUnclosed == Str(<<"@", "t", "{">>)
DocTagQuote == Str(<<"@", "t", "\"", "b">>)
DocTagLines == Str(<<"@", "t", "\n", "{", "}", " ", "@", "a", " ", "(", ")">>)
DocHeredocKey == Str(<<"a", " ", "1", "\n", "<", "<", "E", "\n", "x", "\n", "E", "\n">>)
DocHeredocKeyInObject ==
    Str(<<"{", "<", "<", "E", ",", "x", "\n", "x", "\n", "E", "\n", "}">>)
DocObjectDistinct ==
    Str(<<"{", "a", ".", "b", " ", "1", ",", " ", "b", ".", "c", " ", "2", "}">>)
DocObjectNested ==
    Str(<<"x", " ", "{", "a", ".", "b", " ", "1", ",", " ", "a", ".", "b", ".", "c", " ", "2", "}">>)
DocObjectTerminal == Str(<<"{", "a", " ", "1", ",", " ", "a", ".", "b", " ", "2", "}">>)
DocObjectReopen ==
    Str(<<"x", " ", "{", "a", ".", "b", " ", "{", "}", ",", " ", "b", " ", "1", ",", " ">>)
    \o Str(<<"a", ".", "c", " ", "2", "}">>)
DocSpace == Str(<<" ">>)
DocComment == Str(<<"/", "/", " ", "c">>)
DocBlank == Str(<<" ", "\n", "/", "/", " ", "c", "\n", "\t", "\r", "\n">>)

Scenarios ==
    {DocTwoEntries, DocTwoEquals, DocNestEquals, DocNest, DocShared, DocSharedEquals,
     DocDupThird, DocDupEquals, DocRBrace, DocKeyRBrace, DocRParen, DocAttrs, DocDotted,
     DocTagged, DocRootDotted, DocQuotedAlias, DocSpace, DocComment, DocBlank,
     DocRootTrailingQuote, DocRootTrailingLate, DocRootCommas, DocRootCommaQuote,
     DocRootRBrace, DocDottedNewline, DocDottedEof, DocUnits, DocUnicodeDotted,
     DocUnicodeHeredocKey, DocUnicodeTag, DocAttrsValue, DocAttrsSpaced,
     DocAttrsNewline, DocAttrsEof, DocAttrsLate, DocAttrsSpaceBefore, DocAttrsRParen,
     DocAttrsQuote, DocAttrsChain, DocAttrsTrailing, DocTagForms, DocTagComma,
     DocTagDot, DocTagGt, DocTagTag, DocTagHeredoc, DocTagSequence, DocTagRParen,
     DocTagUnclosed, DocTagQuote, DocTagLines, DocHeredocKey, DocHeredocKeyInObject,
     DocObjectDistinct, DocObjectNested, DocObjectTerminal, DocObjectReopen}

\* constructs that are still open when the source ends, and what may stand
\* before them
UnclosedConstructs ==
    {Str(<<"{">>), Str(<<"{", "a", " ", "1">>), Str(<<"(">>), Str(<<"(", "a">>),
     Str(<<"r", "\"", "a", "b">>), Str(<<"r", "#", "\"", "a", "\"">>),
     Str(<<"\"", "a", "b">>), Str(<<"<", "<", "E", "\n", "a">>),
     Str(<<"<", "<", "E", "\n", "a", "\n">>)}
UnclosedPrefixes == {<<>>, Str(<<"a", " ">>)}
UnclosedDocs == {p \o u : p \in UnclosedPrefixes, u \in UnclosedConstructs}

\* pieces of documents
Fragments ==
    {Str(<<"a", " ", "1", "\n">>),
     Str(<<"a", " ", "{", "}", "\n">>),
     Str(<<"a", ".", "b", " ", "1", "\n">>),
     Str(<<"a", ".", "b", " ", "{", "b", " ", "1", "}", "\n">>),
     Str(<<"b", " ", "(", "a", " ", "@", "t", ")", ",">>),
     Str(<<"\"", "a", ".", "b", "\"", " ", "1", "\n">>),
     Str(<<"{", "a", " ", "1", "}">>),
     Str(<<"@", "t", "(", ")", " ", "b", ">", "1", "\n">>)}

RECURSIVE Concatenation(_)
\* the source text that a sequence of pieces makes
Concatenation(fs) == IF fs = <<>> THEN <<>> ELSE Head(fs) \o Concatenation(Tail(fs))

\* src is one of the documents parse() is called with: a scenario, or up to
\* MaxFrags fragments one after the other
IsSource(src) ==
    \/ src \in Scenarios \cup UnclosedDocs
    \/ \E n \in 0..MaxFrags : \E fs \in [1..n -> Fragments] : src = Concatenation(fs)

TheParser == Ps(Lx(pos, byte_pos), current, peeked)

Init ==
    /\ IsSource(source)
    /\ pos = 0
    /\ byte_pos = 0
    /\ current = NoToken
    /\ peeked = NoToken
    /\ entries = <<>>
    /\ start = 0
    /\ current_path = EmptyPathState.current_path
    /\ closed_paths = EmptyPathState.closed_paths
    /\ assigned_paths = EmptyPathState.assigned_paths
    /\ pc = "new"
    /\ outcome = NoOutcome
    /\ history = <<>>

\* the parser's fields after a call that left the parser in state ps
SetParser(ps) ==
    /\ pos' = ps.lx.pos
    /\ byte_pos' = ps.lx.byte_pos
    /\ current' = ps.current
    /\ peeked' = ps.peeked

\* Parser.__init__: the first token is read; a lexer error is raised to the
\* caller
Construct ==
    /\ pc = "new"
    /\ \E r \in {NewParser(source)} :
        /\ SetParser(r.ps)
        /\ pc' = IF r.ok THEN "parse" ELSE "done"
        /\ outcome' = IF r.ok THEN NoOutcome ELSE Raised(r.err)
        /\ UNCHANGED <<source, entries, start, current_path, closed_paths, assigned_paths,
                       history>>

\* parse(), up to the test for an explicit root object
ParseBegin ==
    /\ pc = "parse"
    /\ \E r \in {SkipCommas(source, TheParser)} :
        /\ entries' = <<>>
        /\ start' = current.span.start
        /\ current_path' = EmptyPathState.current_path
        /\ closed_paths' = EmptyPathState.closed_paths
        /\ assigned_paths' = EmptyPathState.assigned_paths
        /\ SetParser(r.ps)
        /\ pc' = IF ~r.ok THEN "done"
                 ELSE IF Check(r.ps, {"lbrace"}) THEN "root" ELSE "entries"
        /\ outcome' = IF r.ok THEN NoOutcome ELSE Raised(r.err)
        /\ UNCHANGED <<source, history>>

\* parse(), the branch of an explicit root object
ExplicitRoot ==
    /\ pc = "root"
    /\ \E r \in {ParseExplicitRoot(source, TheParser, start)} :
        /\ SetParser(r.ps)
        /\ entries' = IF r.ok THEN r.val.entries ELSE entries
        /\ pc' = "done"
        /\ outcome' = IF r.ok THEN Returned(r.val) ELSE Raised(r.err)
        /\ UNCHANGED <<source, start, current_path, closed_paths, assigned_paths, history>>

\* one iteration of `while not self._check(TokenType.EOF)` in parse()
ParseEntryIteration ==
    /\ pc = "entries"
    /\ ~Check(TheParser, {"eof"})
    /\ \E r \in {Self("_parse_entry_with_path_check", source, TheParser, ThePathState)} :
        /\ SetParser(r.ps)
        /\ entries' = IF r.ok /\ ~r.none THEN Append(entries, r.val) ELSE entries
        /\ current_path' = r.seen.current_path
        /\ closed_paths' = r.seen.closed_paths
        /\ assigned_paths' = r.seen.assigned_paths
        /\ history' = IF r.call.made
                      THEN Append(history,
                                  CallRecord(r.call.path, r.call.span, r.call.kind, ThePathState,
                                             [ok |-> r.ok, err |-> r.err]))
                      ELSE history
        /\ pc' = IF r.ok THEN "entries" ELSE "done"
        /\ outcome' = IF r.ok THEN NoOutcome ELSE Raised(r.err)
        /\ UNCHANGED <<source, start>>

\* parse(), the return after the loop
ParseReturn ==
    /\ pc = "entries"
    /\ Check(TheParser, {"eof"})
    /\ pc' = "done"
    /\ outcome' = Returned(Document(entries, Span(start, current.span.end)))
    /\ UNCHANGED <<source, pos, byte_pos, current, peeked, entries, start, current_path,
                   closed_paths, assigned_paths, history>>

Next == Construct \/ ParseBegin \/ ExplicitRoot \/ ParseEntryIteration \/ ParseReturn

Spec == Init /\ [][Next]_vars

(***************************************************************************)
(* Properties of Parser.parse().                                           *)
(***************************************************************************)
\* a bare scalar Value and a unit Value at the span (s, e)
BareAt(text, s, e) == Value(Span(s, e), NoTag, Scalar(text, "bare", Span(s, e)))
UnitAt(s, e) == Value(Span(s, e), NoTag, NoPayload)

\* parse() has ended: it returned a Document or raised
Done == pc = "done"

\* C1: the document-level loop makes progress.  Every iteration of the
\* loop of parse() consumes at least one token or ends the loop (by raising,
\* or by leaving the parser at EOF): no iteration leaves the parser as it
\* found it, which would make parse() run for ever.
C1_EntryLoopProgress ==
    (pc = "entries" /\ ~Check(TheParser, {"eof"})) =>
        \A r \in {Self("_parse_entry_with_path_check", source, TheParser, ThePathState)} :
            ~r.ok \/ r.ps # TheParser

\* C5: a recorded path is rejected.  Every check_and_update call made by a
\* document-level entry whose full key path was recorded before the call
\* raises: `duplicate key` when the recorded kind is terminal, `cannot reopen
\* path` naming the full path when it is object, both at the key's span;
\* the error ends parse().  The document a 1 / b 2 / a 2 fails with
\* `duplicate key` at the second a.
C5_RecordedPathRejected ==
    /\ \A k \in 1..Len(history) :
           LET c == history[k]
               full_path == Join(c.path, Ord("."))
               recorded == c.before.assigned_paths
           IN  full_path \in DOMAIN recorded =>
                   /\ ~c.ok
                   /\ c.err = IF recorded[full_path].kind = "terminal"
                              THEN ParseError(Msg("duplicate key", <<>>, <<>>), c.span)
                              ELSE ParseError(Msg("cannot reopen path", full_path, <<>>), c.span)
                   /\ k = Len(history)
                   /\ Done
                   /\ outcome = Raised(c.err)
    /\ (source = DocDupThird /\ Done) =>
           outcome = Raised(ParseError(Msg("duplicate key", <<>>, <<>>), Span(8, 9)))

\* a 1 / b 2 / a 2 was parsed to its end: the third entry's key a, at (8, 9),
\* was recorded as a terminal and the call was rejected
C5_Witness ==
    /\ source = DocDupThird
    /\ Done
    /\ Len(history) = 3
    /\ history[3].path = <<SegA>>
    /\ history[3].span = Span(8, 9)
    /\ SegA \in DOMAIN history[3].before.assigned_paths
    /\ ~history[3].ok

\* C6 as stated: a.b = 1 / a.b.c = 2 fails with `cannot nest into a.b`, at
\* the span of a.b.c.
C6_NestEqualsCannotNest ==
    (source = DocNestEquals /\ Done) =>
        outcome = Raised(ParseError(Msg("cannot nest into", Str(<<"a", ".", "b">>), <<>>),
                                    Span(8, 13)))

\* C6, amended: a.b = 1 / a.b.c = 2 fails with `cannot reopen path a`, at the
\* span of a.b.c: `=` is a bare scalar, the value of a.b, and 1 is the key
\* of a further entry, which closes a.  The document a.b 1 / a.b.c 2 fails
\* with `cannot nest into a.b`, at the span of a.b.c.
C6_NestEqualsCannotReopen ==
    /\ (source = DocNestEquals /\ Done) =>
           outcome = Raised(ParseError(Msg("cannot reopen path", SegA, <<>>), Span(8, 13)))
    /\ (source = DocNest /\ Done) =>
           outcome = Raised(ParseError(Msg("cannot nest into", Str(<<"a", ".", "b">>), <<>>),
                                       Span(6, 11)))

\* a.b = 1 / a.b.c = 2 was parsed to its end: a.b and 1 were recorded, the
\* call for a.b.c was rejected
C6_Witness ==
    /\ source = DocNestEquals
    /\ Done
    /\ Len(history) = 3
    /\ history[1].path = <<SegA, SegB>> /\ history[1].ok
    /\ history[2].path = <<Str(<<"1">>)>> /\ history[2].ok
    /\ history[3].path = <<SegA, SegB, Str(<<"c">>)>> /\ ~history[3].ok

\* C7 as stated: a = 1 / b = 2 gives a Document of exactly two entries, the
\* keys the bare scalars a and b, the values the bare scalars 1 and 2.
C7_TwoEqualsTwoEntries ==
    (source = DocTwoEquals /\ Done) =>
        /\ outcome.returned
        /\ Len(outcome.doc.entries) = 2
        /\ \A i \in 1..2 :
               /\ outcome.doc.entries[i].key.payload.kind = "scalar"
               /\ outcome.doc.entries[i].key.payload.skind = "bare"
               /\ outcome.doc.entries[i].key.payload.text = <<SegA, SegB>>[i]
               /\ outcome.doc.entries[i].value.payload.kind = "scalar"
               /\ outcome.doc.entries[i].value.payload.skind = "bare"
               /\ outcome.doc.entries[i].value.payload.text = <<Str(<<"1">>), Str(<<"2">>)>>[i]

\* C7, amended: a = 1 / b = 2 gives a Document of four entries: a with the
\* bare scalar `=`, 1 with a unit value, b with the bare scalar `=`, 2 with a
\* unit value.  The document a 1 / b 2 gives the two entries whose keys are
\* the bare scalars a and b and whose values are the bare scalars 1 and 2.
C7_TwoEqualsFourEntries ==
    /\ (source = DocTwoEquals /\ Done) =>
           outcome = Returned(Document(
               <<Entry(BareAt(SegA, 0, 1), BareAt(Str(<<"=">>), 2, 3)),
                 Entry(BareAt(Str(<<"1">>), 4, 5), UnitAt(4, 5)),
                 Entry(BareAt(SegB, 6, 7), BareAt(Str(<<"=">>), 8, 9)),
                 Entry(BareAt(Str(<<"2">>), 10, 11), UnitAt(10, 11))>>,
               Span(0, 12)))
    /\ (source = DocTwoEntries /\ Done) =>
           outcome = Returned(Document(
               <<Entry(BareAt(SegA, 0, 1), BareAt(Str(<<"1">>), 2, 3)),
                 Entry(BareAt(SegB, 4, 5), BareAt(Str(<<"2">>), 6, 7))>>,
               Span(0, 8)))

\* a = 1 / b = 2 was parsed to its end and a Document was returned
C7_Witness == source = DocTwoEquals /\ Done /\ outcome.returned /\ Len(entries) = 4

\* the entry e has the bare key `key` and an object of the one entry that
\* Inner(_) holds of
OneEntryObject(e, key, Inner(_)) ==
    /\ e.key.payload.kind = "scalar"
    /\ e.key.payload.skind = "bare"
    /\ e.key.payload.text = key
    /\ e.value.payload.kind = "object"
    /\ Len(e.value.payload.entries) = 1
    /\ Inner(e.value.payload.entries[1])

\* the entry e has the bare key `key` and the bare scalar `text` as its value
BareEntry(e, key, text) ==
    /\ e.key.payload.kind = "scalar" /\ e.key.payload.text = key
    /\ e.value.payload.kind = "scalar" /\ e.value.payload.skind = "bare"
    /\ e.value.payload.text = text

\* C8 as stated: a.b.c 1 / a.b.d 2 is accepted by the path tracker and gives
\* ONE top-level entry a, whose object has one entry b, whose object has
\* the two entries c and d, in source order.
C8_SharedPrefixOneEntry ==
    (source = DocShared /\ Done) =>
        /\ outcome.returned
        /\ \A k \in 1..Len(history) : history[k].ok
        /\ Len(outcome.doc.entries) = 1
        /\ OneEntryObject(outcome.doc.entries[1], SegA,
               LAMBDA b : /\ b.key.payload.text = SegB
                          /\ b.value.payload.kind = "object"
                          /\ Len(b.value.payload.entries) = 2
                          /\ BareEntry(b.value.payload.entries[1], Str(<<"c">>), Str(<<"1">>))
                          /\ BareEntry(b.value.payload.entries[2], Str(<<"d">>), Str(<<"2">>)))

\* C8, amended: a.b.c 1 / a.b.d 2 is accepted by the path tracker and gives
\* TWO top-level entries, both with the key a: the first's object has one
\* entry b, whose object has the one entry c with 1; the second's object has
\* one entry b, whose object has the one entry d with 2.
C8_SharedPrefixTwoEntries ==
    (source = DocShared /\ Done) =>
        /\ outcome.returned
        /\ Len(history) = 2
        /\ \A k \in 1..Len(history) : history[k].ok
        /\ Len(outcome.doc.entries) = 2
        /\ OneEntryObject(outcome.doc.entries[1], SegA,
               LAMBDA b : OneEntryObject(b, SegB,
                   LAMBDA c : BareEntry(c, Str(<<"c">>), Str(<<"1">>))))
        /\ OneEntryObject(outcome.doc.entries[2], SegA,
               LAMBDA b : OneEntryObject(b, SegB,
                   LAMBDA d : BareEntry(d, Str(<<"d">>), Str(<<"2">>))))

\* a.b.c 1 / a.b.d 2 was parsed to its end: both calls were accepted and a
\* Document was returned
C8_Witness ==
    /\ source = DocShared
    /\ Done
    /\ outcome.returned
    /\ Len(history) = 2
    /\ history[1].path = <<SegA, SegB, Str(<<"c">>)>> /\ history[1].ok
    /\ history[2].path = <<SegA, SegB, Str(<<"d">>)>> /\ history[2].ok

RECURSIVE SubValues(_)
\* the Values of the tree under the Value v, v among them
SubValues(v) ==
    {v}
    \cup UNION {SubValues(v.payload.items[i]) : i \in 1..Len(v.payload.items)}
    \cup UNION {SubValues(v.payload.entries[i].key) \cup SubValues(v.payload.entries[i].value) :
                   i \in 1..Len(v.payload.entries)}

\* the Values of a Document
DocValues(doc) ==
    UNION {SubValues(doc.entries[i].key) \cup SubValues(doc.entries[i].value) :
              i \in 1..Len(doc.entries)}

\* C9: key uniqueness.  In every Document that parse() returns, within each
\* Object of the tree, the key text that _get_key_text derives is unique
\* across the object's entries.
C9_KeyUniqueness ==
    outcome.returned =>
        \A v \in DocValues(outcome.doc) :
            v.payload.kind = "object" =>
                \A i, j \in 1..Len(v.payload.entries) :
                    (/\ i # j
                     /\ GetKeyText(v.payload.entries[i].key).some
                     /\ GetKeyText(v.payload.entries[j].key).some)
                    => GetKeyText(v.payload.entries[i].key).text
                           # GetKeyText(v.payload.entries[j].key).text

\* the span inner lies within the span outer
Within(outer, inner) ==
    outer.start <= inner.start /\ inner.start <= inner.end /\ inner.end <= outer.end

\* the spans of the nodes under the Value v: its tag, its payload, and the
\* Values under it with their tags and payloads
DescendantSpans(v) ==
    {w.span : w \in SubValues(v) \ {v}}
    \cup {w.tag.span : w \in {x \in SubValues(v) : x.tag.present}}
    \cup {w.payload.span : w \in {x \in SubValues(v) : x.payload.kind # "none"}}

\* C10: span containment.  In every Document that parse() returns, every
\* node with a non-synthetic span holds the span of each of its descendants
\* that has a non-synthetic span.
C10_SpanContainment ==
    outcome.returned =>
        \A v \in DocValues(outcome.doc) :
            /\ Within(outcome.doc.span, v.span) \/ v.span = SyntheticSpan
            /\ v.span # SyntheticSpan =>
                   \A c \in DescendantSpans(v) \ {SyntheticSpan} : Within(v.span, c)
            /\ v.payload.kind # "none" =>
                   \A c \in {w.span : w \in SubValues(v) \ {v}} \ {SyntheticSpan} :
                       Within(v.payload.span, c)

\* C11: the span of a Tag.  For every tagged Value of a returned Document,
\* the Tag's span covers exactly the identifier after the `@`: it is as long
\* as the name and starts after the first byte of the source; and the span
\* of a TAG token covers the `@` and the identifier.
C11_TagSpanIsIdentifier ==
    /\ current.type = "tag" =>
           current.span.end - current.span.start = Utf8LenOf(current.text) + 1
    /\ outcome.returned =>
           \A v \in DocValues(outcome.doc) :
               v.tag.present =>
                   /\ v.tag.span.end - v.tag.span.start = Utf8LenOf(v.tag.name)
                   /\ v.tag.span.start >= 1

RECURSIVE OnlyBlank(_)
\* s holds nothing but whitespace and // comments
OnlyBlank(s) ==
    IF s = <<>> THEN TRUE
    ELSE IF Head(s) \in {Ord(" "), Ord("\t"), Ord("\r"), Ord("\n")} THEN OnlyBlank(Tail(s))
    ELSE IF Len(s) >= 2 /\ s[1] = Ord("/") /\ s[2] = Ord("/")
    THEN Bind(FindChar(s, Ord("\n"), 0), LAMBDA nl :
         IF nl < 0 THEN TRUE ELSE OnlyBlank(SubSeq(s, nl + 2, Len(s))))
    ELSE FALSE

\* C13: empty documents.  parse() of an empty source, and of a source of
\* nothing but whitespace and // comments, returns a Document with no
\* entries and the span (0, 0).
C13_BlankSourceSpanZero ==
    (Done /\ OnlyBlank(source)) => outcome = Returned(Document(<<>>, Span(0, 0)))

\* C14: unclosed constructs.  When the source ends while a { object, a (
\* sequence, a raw string, a heredoc or a quoted string is still open,
\* parse() raises a ParseError whose span begins at the construct's opener.
C14_UnclosedErrorAtOpener ==
    \A p \in UnclosedPrefixes, u \in UnclosedConstructs :
        (source = p \o u /\ Done) =>
            /\ ~outcome.ok
            /\ outcome.err.exc = "ParseError"
            /\ outcome.err.span.start = Utf8LenOf(p)

RECURSIVE LexesToEof(_, _)
\* the rest of the source, from the lexer state lx on, is made of tokens
LexesToEof(src, lx) ==
    Bind(NextToken(src, lx), LAMBDA r :
    r.ok /\ (r.tok.type = "eof" \/ LexesToEof(src, r.lx)))

\* the one entry of a Document with the explicit root object obj
RootEntries(obj) ==
    <<Entry(Value(SyntheticSpan, NoTag, NoPayload), Value(obj.span, NoTag, obj))>>

TrailingContent == Msg("trailing content after explicit root object", <<>>, <<>>)

\* C15 as stated: an explicit root object.  When the first token after the
\* leading commas is {, and the object is parsed: with nothing but commas
\* after its }, parse() returns a Document of one entry, the object under a
\* synthetic unit key; with ANY other content after it, parse() fails with
\* `trailing content after explicit root object`, from the first trailing
\* token's start (when there is such a token) to the EOF token's start.
C15_AnyTrailingContent ==
    [][pc = "root" =>
        \A o \in {Self("_parse_object", source, TheParser, <<>>)} :
            o.ok =>
                \A sc \in {SkipCommas(source, o.ps)} :
                    IF sc.ok /\ sc.ps.current.type = "eof"
                    THEN outcome'.returned /\ outcome'.doc.entries = RootEntries(o.val)
                    ELSE /\ ~outcome'.ok
                         /\ outcome'.err.msg = TrailingContent
                         /\ sc.ok => outcome'.err.span
                                         = Span(sc.ps.current.span.start, Utf8LenOf(source))]_vars

\* C15, amended: as above when the content after the } is made of tokens;
\* when the lexer fails on it, parse() fails with the lexer's error.
C15_TrailingTokens ==
    [][pc = "root" =>
        \A o \in {Self("_parse_object", source, TheParser, <<>>)} :
            o.ok =>
                \A sc \in {SkipCommas(source, o.ps)} :
                    IF sc.ok /\ sc.ps.current.type = "eof"
                    THEN outcome'.returned /\ outcome'.doc.entries = RootEntries(o.val)
                    ELSE IF sc.ok /\ LexesToEof(source, sc.ps.lx)
                    THEN outcome' = Raised(ParseError(TrailingContent,
                                               Span(sc.ps.current.span.start,
                                                    Utf8LenOf(source))))
                    ELSE /\ ~outcome'.ok
                         /\ outcome'.err.msg # TrailingContent
                         /\ ~LexesToEof(source, o.ps.lx)]_vars

\* a root object was followed by commas and tokens, and parse() failed with
\* `trailing content after explicit root object`
C15_Witness ==
    /\ Done
    /\ source = Str(<<"{", "a", " ", "1", "}">>) \o Str(<<"b", " ", "(", "a", " ", "@", "t", ")", ",">>)
    /\ outcome = Raised(ParseError(TrailingContent, Span(5, 14)))

\* the key that a scalar token makes
KeyOf(token) ==
    Value(token.span, NoTag,
          Scalar(token.text, IF token.type = "scalar" THEN "bare" ELSE token.type, token.span))

\* What an entry parser gives for the key `token` when the token `next` after
\* it begins a line or is EOF or }: it raises one of the errors of a
\* rejected key, or returns an entry and leaves `next` as the current token;
\* the value of the entry of a key that is not a dotted path is a unit Value
\* with the key's span.
ImplicitUnit(r, token, next) ==
    IF r.ok
    THEN /\ ~r.none
         /\ r.ps.current = next
         /\ (token.type = "scalar" /\ HasDot(token.text))
                \/ r.val = Entry(KeyOf(token), Value(token.span, NoTag, NoPayload))
    ELSE r.err.msg.text \in {"duplicate key", "cannot reopen path", "cannot nest into",
                             "invalid key"}

\* C16: implicit unit values.  For an entry at document level and for an
\* entry of an object, whose key is a bare (dotted or not), quoted or raw
\* scalar: when the token after the key begins a new line, or is EOF or },
\* the entry's value is a unit Value with the key's span and no further
\* token is consumed for the entry.
C16_ImplicitUnit ==
    (/\ pc = "entries"
     /\ current.type \in {"scalar", "quoted", "raw"}
     /\ peeked = NoToken) =>
        \A n \in {NextToken(source, Lx(pos, byte_pos))} :
            (n.ok /\ (n.tok.had_newline_before \/ n.tok.type \in {"eof", "rbrace"})) =>
                /\ ImplicitUnit(Self("_parse_entry_with_path_check", source, TheParser,
                                     ThePathState),
                                current, n.tok)
                /\ ImplicitUnit(Self("_parse_entry_with_dup_check", source, TheParser, <<>>),
                                current, n.tok)

\* the span sp lies in the source
InSource(sp) == 0 <= sp.start /\ sp.start <= sp.end /\ sp.end <= Utf8LenOf(source)

\* the spans of the Value v, of its tag and of its payload
NodeSpans(v) ==
    {v.span}
    \cup (IF v.tag.present THEN {v.tag.span} ELSE {})
    \cup (IF v.payload.kind # "none" THEN {v.payload.span} ELSE {})

\* C17: spans lie in the source.  The span of every token, of every node of
\* a returned Document that is not the synthetic span (-1, -1), of every
\* key handed to the path tracker and of every raised ParseError satisfies
\* 0 <= start <= end <= the length of the source in bytes.
C17_SpansInSource ==
    /\ current # NoToken => InSource(current.span)
    /\ peeked # NoToken => InSource(peeked.span)
    /\ \A k \in 1..Len(history) : InSource(history[k].span)
    /\ outcome.err.exc = "ParseError" => InSource(outcome.err.span)
    /\ outcome.returned =>
           /\ InSource(outcome.doc.span)
           /\ \A v \in DocValues(outcome.doc) :
                  \A sp \in NodeSpans(v) \ {SyntheticSpan} : InSource(sp)

\* a heredoc in key position, after a character of two bytes, was rejected
\* with `invalid key` at a span that _heredoc_start_span computed
C17_Witness ==
    /\ source = DocUnicodeHeredocKey
    /\ Done
    /\ outcome.err.msg.text = "invalid key"
    /\ outcome.err.span.start = 5

RECURSIVE TokensFrom(_, _)
\* the tokens that the lexer in state lx gives, up to EOF or to the first
\* one that it fails on
TokensFrom(src, lx) ==
    Bind(NextToken(src, lx), LAMBDA r :
    IF ~r.ok THEN <<>>
    ELSE IF r.tok.type = "eof" THEN <<r.tok>>
    ELSE <<r.tok>> \o TokensFrom(src, r.lx))

\* the tokens that the parser in state ps has before it, `current` first
TokenStream(src, ps) ==
    <<ps.current>> \o (IF ps.peeked # NoToken THEN <<ps.peeked>> ELSE <<>>)
    \o TokensFrom(src, ps.lx)

\* T[k] and T[k + 1] are a scalar and a `>` with no whitespace between them
PairStart(T, k) ==
    /\ k + 1 <= Len(T)
    /\ T[k].type = "scalar"
    /\ T[k + 1].type = "gt"
    /\ ~T[k + 1].had_whitespace_before

\* the scalar T[1] starts attribute mode
AttributeMode(T) ==
    /\ Len(T) >= 3
    /\ PairStart(T, 1)
    /\ T[3].type # "eof"
    /\ ~T[3].had_newline_before

\* the tokens that decide on attribute mode are there, and decide against it
NoAttributeMode(T) ==
    /\ Len(T) >= 2
    /\ PairStart(T, 1) => Len(T) >= 3
    /\ ~AttributeMode(T)

\* r is an attribute object read from the tokens T: its first key is T[1],
\* every further key is a scalar on the line of the value before it, stands
\* right after that value and has a `>` with no whitespace after it, the
\* entries are in the order of the source, the token left as current is the
\* one after the last value and starts no further pair, and the span runs
\* from the first key's start to the last value's end.
AttributeObject(T, r) ==
    Bind(r.val.payload.entries, LAMBDA es :
    /\ r.val.tag = NoTag
    /\ r.val.payload.kind = "object"
    /\ r.val.span = r.val.payload.span
    /\ Len(es) >= 1
    /\ es[1].key = BareValue(T[1])
    /\ r.val.span = Span(T[1].span.start, es[Len(es)].value.span.end)
    /\ \A i \in 1..Len(es) : es[i].key.span.end + 1 <= es[i].value.span.start
    /\ \A i \in 2..Len(es) :
           \E k \in 2..Len(T) :
               /\ PairStart(T, k)
               /\ ~T[k].had_newline_before
               /\ es[i].key = BareValue(T[k])
               /\ T[k - 1].span.end = es[i - 1].value.span.end
    /\ \E m \in 2..Len(T) :
           /\ r.ps.current = T[m]
           /\ T[m - 1].span.end = es[Len(es)].value.span.end
           /\ ~(PairStart(T, m) /\ ~T[m].had_newline_before))

\* _parse_value on the scalar that is the current token of ps: a plain
\* Scalar value when the tokens decide against attribute mode, and an
\* attribute object when they decide for it and the attribute values parse
AttributeRule(src, ps) ==
    Bind(TokenStream(src, ps), LAMBDA T :
    Bind(Self("_parse_value", src, ps, <<>>), LAMBDA r :
    /\ NoAttributeMode(T) => r.ok /\ r.val = BareValue(T[1]) /\ r.ps.current = T[2]
    /\ (AttributeMode(T) /\ r.ok) => AttributeObject(T, r)))

\* an entry parser on the scalar that is the current token of ps, when it
\* starts attribute mode: the entry it returns has a synthetic unit key and
\* the attribute object as its value
AttributeEntry(src, ps, e) ==
    Bind(Self("_parse_value", src, ps, <<>>), LAMBDA r :
    (AttributeMode(TokenStream(src, ps)) /\ e.ok) =>
        /\ ~e.none
        /\ r.ok
        /\ e.val = Entry(Value(SyntheticSpan, NoTag, NoPayload), r.val))

\* C18: attribute mode.  A bare scalar with a `>` right after it (no
\* whitespace before the `>`), where the token after the `>` is neither EOF
\* nor on a new line, gives an Object value with one entry per k>v pair, in
\* order, which goes on only while the next token is a SCALAR on the same
\* line with a `>` right after it; its span runs from the first key's start
\* to the last value's end.  Any other bare scalar gives a plain Scalar
\* value.  At entry position the attribute object is the value of an entry
\* with a synthetic unit key.  Checked for the scalar in key position and
\* for the one after it.
C18_AttributeMode ==
    (pc = "entries" /\ current.type = "scalar") =>
        /\ AttributeRule(source, TheParser)
        /\ AttributeEntry(source, TheParser,
                          Self("_parse_entry_with_path_check", source, TheParser,
                               ThePathState))
        /\ AttributeEntry(source, TheParser,
                          Self("_parse_entry_with_dup_check", source, TheParser, <<>>))
        /\ \A a \in {Self("_advance", source, TheParser, <<>>)} :
               (a.ok /\ a.ps.current.type = "scalar") => AttributeRule(source, a.ps)

\* a value of five attributes, on one line, was read in value position
C18_Witness ==
    /\ source = DocAttrsValue
    /\ Done
    /\ outcome.returned
    /\ Len(outcome.doc.entries) = 1
    /\ outcome.doc.entries[1].value.payload.kind = "object"
    /\ Len(outcome.doc.entries[1].value.payload.entries) = 5
    /\ outcome.doc.entries[1].value.span = Span(2, 28)

\* the kind of payload that the token n opens
PayloadKind(n) ==
    IF n.type = "lbrace" THEN "object"
    ELSE IF n.type = "lparen" THEN "sequence"
    ELSE "scalar"

\* _parse_tag_value on the TAG t that is the current token of ps, where n is
\* the token after t and the tag's span is that of its `@` and identifier
TagRule(src, ps) ==
    Bind(TokenStream(src, ps), LAMBDA T :
    Bind(Self("_parse_tag_value", src, ps, <<>>), LAMBDA r :
    Len(T) >= 2 =>
        \A t \in {T[1]} : \A n \in {T[2]} :
        \A span \in {Span(t.span.start, t.span.start + 1 + Utf8LenOf(t.text))} :
            IF n.had_whitespace_before \/ n.type \in {"eof", "rbrace", "rparen", "comma"}
            THEN /\ r.ok
                 /\ r.val = Value(span, Tag(t.text, span), NoPayload)
                 /\ r.ps.current = n
            ELSE IF n.type \in {"lbrace", "lparen", "quoted", "raw", "heredoc"}
            THEN /\ r.ok =>
                        /\ r.val.tag = Tag(t.text, span)
                        /\ r.val.payload.kind = PayloadKind(n)
                        /\ r.val.payload.span.start = n.span.start
                        /\ r.ps.current # n
                 /\ (n.type \in {"quoted", "raw", "heredoc"} /\ Len(T) >= 3) =>
                        /\ r.ok
                        /\ r.val.payload = Scalar(n.text, n.type, n.span)
                        /\ r.ps.current = T[3]
            ELSE IF n.type = "at"
            THEN Len(T) >= 3 =>
                        /\ r.ok
                        /\ r.val.tag = Tag(t.text, span)
                        /\ r.val.payload = NoPayload
                        /\ r.ps.current = T[3]
            ELSE /\ ~r.ok
                 /\ r.err = ParseError(Msg("invalid tag name", <<>>, <<>>),
                                       Span(t.span.start, n.span.end))))

\* C19: tag values.  For a TAG t and the token n after it: when n has
\* whitespace before it or is EOF, }, ) or a comma, the result is a Value of
\* the tag alone, whose span starts at the tag's @ and ends at the end of its
\* identifier, and n is not consumed; when n is adjacent and is {, (, QUOTED,
\* RAW or HEREDOC, it is the payload; when n is an adjacent @, the Value has
\* no payload and the @ is consumed; any other adjacent token raises
\* `invalid tag name` from the tag's @ through the end of n.  Checked for
\* the tag in key position and for the one after a key.
C19_TagValue ==
    pc = "entries" =>
        /\ current.type = "tag" => TagRule(source, TheParser)
        /\ \A a \in {Self("_advance", source, TheParser, <<>>)} :
               (a.ok /\ a.ps.current.type = "tag") => TagRule(source, a.ps)

\* a tag alone as a key, a tag with a quoted payload as its value, and a tag
\* with an adjacent @ as the next key
C19_Witness ==
    /\ source = DocTagForms
    /\ Done
    /\ outcome.returned
    /\ Len(outcome.doc.entries) = 2
    /\ outcome.doc.entries[1] =
           Entry(Value(Span(0, 2), Tag(Str(<<"t">>), Span(0, 2)), NoPayload),
                 Value(Span(5, 8), Tag(Str(<<"a">>), Span(3, 5)),
                       Scalar(Str(<<"b">>), "quoted", Span(5, 8))))
    /\ outcome.doc.entries[2].key =
           Value(Span(11, 12), Tag(Str(<<"b">>), Span(9, 11)), NoPayload)

(***************************************************************************)
(* The lexer on its own: Lexer(source), then next_token() until it returns *)
(* EOF or raises.                                                          *)
(***************************************************************************)
MaxPieces == 3

\* quoted strings with \u escapes, well formed and not
LexUnicodeFour == Str(<<"\"", "\\", "u", "0", "0", "4", "1", "\"">>)
LexUnicodeBraced == Str(<<"\"", "\\", "u", "{", "4", "1", "}", "\"">>)
LexUnicodeMax == Str(<<"\"", "\\", "u", "{", "1", "0", "F", "F", "F", "F", "}", "\"">>)
LexUnicodeNonHex == Str(<<"\"", "\\", "u", "Z", "Z", "Z", "Z", "\"">>)
LexUnicodeShort == Str(<<"\"", "\\", "u", "1", "2", "\"">>)
LexUnicodeShortEof == Str(<<"\"", "\\", "u", "1", "2">>)
LexUnicodeUnclosed == Str(<<"\"", "\\", "u", "{", "4", "1", "\"">>)
LexUnicodeUnclosedEof == Str(<<"\"", "\\", "u", "{", "4", "1">>)
LexUnicodeEmpty == Str(<<"\"", "\\", "u", "{", "}", "\"">>)
LexUnicodeAbove == Str(<<"\"", "\\", "u", "{", "1", "1", "0", "0", "0", "0", "}", "\"">>)
LexUnicodeSigned == Str(<<"\"", "\\", "u", "+", "0", "4", "1", "\"">>)
LexUnicodeSpaced == Str(<<"\"", "\\", "u", "{", " ", "4", "1", " ", "}", "\"">>)
LexUnicodeUnderscore == Str(<<"\"", "\\", "u", "{", "4", "_", "1", "}", "\"">>)
LexUnicodeNegative == Str(<<"\"", "\\", "u", "{", "-", "4", "1", "}", "\"">>)

\* raw strings, closed and not
LexRawPlain == Str(<<"r", "\"", "a", "\\", "n", "\"", "b">>)
LexRawTwo ==
    Str(<<"r", "#", "#", "\"", "\\", "n", "\"", "#", "a", "\"", "#", "#", "#">>)
LexRawWide == Str(<<"e'", " ", "r", "#", "\"", "e'", "\"", "\"", "#", "a">>)
LexRawUnclosed == Str(<<"a", " ", "r", "\"", "a", "b", "\\", "\n">>)
LexRawUnclosedHash == Str(<<"r", "#", "#", "\"", "a", "\"", "#", "\"">>)
LexRawNoQuote == Str(<<"r", "#", "a", "\"", "#">>)
LexRawHashEof == Str(<<"a", " ", "r", "#">>)
LexRawEmpty == Str(<<"r", "\"", "\"", "r", "#", "\"", "\"", "#">>)

LexScenarios ==
    {LexUnicodeFour, LexUnicodeBraced, LexUnicodeMax, LexUnicodeNonHex, LexUnicodeShort,
     LexUnicodeShortEof, LexUnicodeUnclosed, LexUnicodeUnclosedEof, LexUnicodeEmpty,
     LexUnicodeAbove, LexUnicodeSigned, LexUnicodeSpaced, LexUnicodeUnderscore,
     LexUnicodeNegative, LexRawPlain, LexRawTwo, LexRawWide, LexRawUnclosed,
     LexRawUnclosedHash, LexRawNoQuote, LexRawHashEof, LexRawEmpty}

\* pieces of sources
LexPieces ==
    {Str(<<"a">>), Str(<<" ">>), Str(<<"\n">>), Str(<<"{">>), Str(<<"}">>), Str(<<"(">>),
     Str(<<")">>), Str(<<",">>), Str(<<">">>), Str(<<"@">>), Str(<<"@", "t">>),
     Str(<<"\"">>), Str(<<"\\", "u">>), Str(<<"\\", "n">>), Str(<<"4", "1">>),
     Str(<<"r", "#", "\"">>), Str(<<"\"", "#">>), Str(<<"<", "<", "E", "\n">>),
     Str(<<"E", "\n">>), Str(<<"/", "/">>), Str(<<"e'">>)}

MaxLines == 3

\* how many times next_token is called at the end of the source
MaxEofs == 2

\* the spec's example of a heredoc: <<END / (two spaces) hello / (two spaces) END
LexHeredocHello ==
    Str(<<"<", "<", "E", "N", "D", "\n", " ", " ", "h", "e", "l", "l", "o", "\n",
          " ", " ", "E", "N", "D", "\n">>)

\* the opening lines of heredocs with the delimiter E, and the lines after them
HeredocOpeners == {Str(<<"<", "<", "E", "\n">>), Str(<<"<", "<", "E", ",", "x", "\n">>)}
HeredocLines ==
    {Str(<<"a", "\n">>), Str(<<" ", "a", "\n">>), Str(<<" ", " ", "a", " ", "\n">>),
     Str(<<"\t", "a", "\n">>), Str(<<"\n">>), Str(<<"E", "\n">>), Str(<<" ", "E", "\n">>),
     Str(<<" ", "\t", "E">>), Str(<<"E", " ", "\n">>), Str(<<" ", "E", "a", "\n">>)}

\* src is one of the sources a Lexer is made with: a scenario, or up to
\* MaxPieces pieces one after the other, or the opening line of a heredoc
\* and up to MaxLines lines
IsLexSource(src) ==
    \/ src \in LexScenarios \cup {LexHeredocHello}
    \/ \E n \in 0..MaxPieces : \E fs \in [1..n -> LexPieces] : src = Concatenation(fs)
    \/ \E o \in HeredocOpeners : \E n \in 0..MaxLines : \E ls \in [1..n -> HeredocLines] :
           src = o \o Concatenation(ls)

\* one call of next_token, as the history keeps it: the token returned and
\* the characters of the source it was read from, from..to - 1
TokenRecord(tok, from, to) == [tok |-> tok, from |-> from, to |-> to]

InitLex ==
    /\ IsLexSource(source)
    /\ pos = 0
    /\ byte_pos = 0
    /\ current = NoToken
    /\ peeked = NoToken
    /\ entries = <<>>
    /\ start = 0
    /\ current_path = EmptyPathState.current_path
    /\ closed_paths = EmptyPathState.closed_paths
    /\ assigned_paths = EmptyPathState.assigned_paths
    /\ pc = "lex"
    /\ outcome = NoOutcome
    /\ history = <<>>

\* how many of the calls so far returned EOF
EofCalls == Cardinality({k \in 1..Len(history) : history[k].tok.type = "eof"})

\* Lexer.next_token(): a token is returned, or an exception is raised; the
\* caller stops after an exception, or after MaxEofs calls that returned EOF
NextTokenCall ==
    /\ pc = "lex"
    /\ \E r \in {NextToken(source, Lx(pos, byte_pos))} :
        /\ pos' = r.lx.pos
        /\ byte_pos' = r.lx.byte_pos
        /\ current' = r.tok
        /\ history' = IF r.ok
                      THEN Append(history,
                                  TokenRecord(r.tok,
                                              SkipWs(source, Lx(pos, byte_pos), FALSE, FALSE).lx.pos,
                                              r.lx.pos))
                      ELSE history
        /\ outcome' = IF r.ok THEN NoOutcome ELSE Raised(r.err)
        /\ pc' = IF r.ok /\ (r.tok.type # "eof" \/ EofCalls + 1 < MaxEofs)
                 THEN "lex" ELSE "lexed"
        /\ UNCHANGED <<source, peeked, entries, start, current_path, closed_paths,
                       assigned_paths>>

NextLex == NextTokenCall

SpecLex == InitLex /\ [][NextLex]_vars

(***************************************************************************)
(* Properties of the lexer.                                                *)
(***************************************************************************)
IsHexDigit(ch) == HexVal(ch) >= 0

RECURSIVE WellFormedEscapes(_)
\* the characters s of a quoted literal, after its opening quote, hold only
\* well-formed \u escapes: \u and four hex digits, or \u{ one to six hex
\* digits } of a code point up to 0x10FFFF
WellFormedEscapes(s) ==
    IF s = <<>> THEN TRUE
    ELSE IF Head(s) # Ord("\\") THEN WellFormedEscapes(Tail(s))
    ELSE IF Len(s) < 2 THEN FALSE
    ELSE IF s[2] # Ord("u") THEN WellFormedEscapes(SubSeq(s, 3, Len(s)))
    ELSE IF Len(s) >= 3 /\ s[3] = Ord("{")
    THEN \E n \in 1..6 :
             /\ Len(s) >= 4 + n
             /\ \A i \in 4..(3 + n) : IsHexDigit(s[i])
             /\ s[4 + n] = Ord("}")
             /\ PyInt16(SubSeq(s, 4, 3 + n)).val <= MaxCodePoint
             /\ WellFormedEscapes(SubSeq(s, 5 + n, Len(s)))
    ELSE /\ Len(s) >= 6
         /\ \A i \in 3..6 : IsHexDigit(s[i])
         /\ WellFormedEscapes(SubSeq(s, 7, Len(s)))

\* C2: lexer failures.  Every failure of next_token is a ParseError that
\* carries a byte span within the source, and next_token returns no quoted
\* token for a literal with a malformed \u escape.
C2_LexerFailures ==
    /\ outcome.err.exc \in {"none", "ParseError"}
    /\ outcome.err.exc = "ParseError" =>
           /\ 0 <= outcome.err.span.start
           /\ outcome.err.span.start <= outcome.err.span.end
           /\ outcome.err.span.end <= Utf8LenOf(source)
    /\ \A k \in 1..Len(history) :
           history[k].tok.type = "quoted" =>
               WellFormedEscapes(SubSeq(source, history[k].from + 2, history[k].to))


\* how many spaces and tabs the line begins with
LeadingBlanks(line) == Len(line) - Len(LStrip(line))

\* the line after at most k of its leading spaces and tabs
Dedented(line, k) ==
    SubSeq(line, (IF LeadingBlanks(line) < k THEN LeadingBlanks(line) ELSE k) + 1, Len(line))

\* The heredoc that the characters c hold from their start (c begins with
\* << and the delimiter): its bare delimiter and the lines after its opening
\* line.
HeredocOf(c) ==
    Bind(FindChar(c, Ord("\n"), 0), LAMBDA nl :
    [bare |-> Split(SubSeq(c, 3, IF nl < 0 THEN Len(c) ELSE nl), Ord(","))[1],
     lines |-> IF nl < 0 THEN <<>> ELSE Split(SubSeq(c, nl + 2, Len(c)), Ord("\n"))])

\* line closes a heredoc of the bare delimiter `bare`
Closes(line, bare) == SubSeq(line, LeadingBlanks(line) + 1, Len(line)) = bare

\* the body of a heredoc, dedented as its closing line (the last of `lines`)
\* says
DedentedBody(lines) ==
    [i \in 1..(Len(lines) - 1) |-> Dedented(lines[i], LeadingBlanks(lines[Len(lines)]))]

\* the HEREDOC tokens returned so far, each with the heredoc it was read from
HeredocTokens ==
    {[tok |-> history[k].tok,
      doc |-> HeredocOf(SubSeq(source, history[k].from + 1, history[k].to))] :
        k \in {j \in 1..Len(history) : history[j].tok.type = "heredoc"}}

\* C12: the text of a heredoc.  The text of every HEREDOC token is the
\* (dedented) body without the newline before the closing delimiter line:
\* the body lines joined with "\n"; <<END / hello / END, both indented by
\* two spaces, gives hello.
C12_HeredocTextNoTrailingNewline ==
    \A h \in HeredocTokens : h.tok.text = Join(DedentedBody(h.doc.lines), Ord("\n"))

\* C20: closing and dedenting a heredoc.  The token of a heredoc ends with
\* the first line after the opening line that, without its leading spaces
\* and tabs, is the bare delimiter; each body line has lost min(k, its own
\* leading spaces and tabs) leading characters, k the closing line's, and
\* nothing else (the text is looked at line by line, whether or not a
\* newline ends it); and a heredoc that next_token rejects has no such line.
C20_HeredocCloseAndDedent ==
    /\ \A h \in HeredocTokens :
           /\ h.doc.lines # <<>>
           /\ Closes(h.doc.lines[Len(h.doc.lines)], h.doc.bare)
           /\ \A i \in 1..(Len(h.doc.lines) - 1) : ~Closes(h.doc.lines[i], h.doc.bare)
           /\ Split(h.tok.text, Ord("\n"))
                  \in {DedentedBody(h.doc.lines), Append(DedentedBody(h.doc.lines), <<>>)}
           /\ LeadingBlanks(h.doc.lines[Len(h.doc.lines)]) = 0 =>
                  Split(h.tok.text, Ord("\n"))
                      \in {SubSeq(h.doc.lines, 1, Len(h.doc.lines) - 1),
                           Append(SubSeq(h.doc.lines, 1, Len(h.doc.lines) - 1), <<>>)}
    /\ (/\ pc = "lexed"
        /\ ~outcome.ok
        /\ history = <<>>
        /\ Len(source) >= 3
        /\ SubSeq(source, 1, 3) = Str(<<"<", "<", "E">>)) =>
           \A i \in 1..Len(HeredocOf(source).lines) :
               ~Closes(HeredocOf(source).lines[i], HeredocOf(source).bare)

\* a heredoc whose closing line is indented by two characters was read, with
\* body lines that begin with fewer, as many and no blanks
C20_Witness ==
    \E h \in HeredocTokens :
        /\ Len(h.doc.lines) >= 3
        /\ LeadingBlanks(h.doc.lines[Len(h.doc.lines)]) = 2
        /\ \E i \in 1..(Len(h.doc.lines) - 1) : LeadingBlanks(h.doc.lines[i]) = 1
        /\ \E i \in 1..(Len(h.doc.lines) - 1) : LeadingBlanks(h.doc.lines[i]) = 0

\* the number of bytes of the first p characters of the source
ByteOffset(p) == Utf8LenOf(SubSeq(source, 1, p))

\* where the token begins that next_token reads with the lexer at character p
TokenStart(p) == SkipWs(source, Lx(p, ByteOffset(p)), FALSE, FALSE).lx.pos

RECURSIVE HashRun(_)
\* how many # characters s begins with
HashRun(s) == IF s # <<>> /\ Head(s) = Ord("#") THEN 1 + HashRun(Tail(s)) ELSE 0

\* the hashes of the raw string that the source may hold at character p
RawHashes(p) == HashRun(SubSeq(source, p + 2, Len(source)))

\* the source holds, at character p: r, hashes and an opening quote
IsRawStart(p) ==
    /\ p + 2 + RawHashes(p) <= Len(source)
    /\ source[p + 1] = Ord("r")
    /\ source[p + 2 + RawHashes(p)] = Ord("\"")

\* the characters c + 1 .. c + 1 + n of the source are a quote and n hashes
IsCloser(c, n) ==
    /\ c + 1 + n <= Len(source)
    /\ source[c + 1] = Ord("\"")
    /\ \A j \in 1..n : source[c + 1 + j] = Ord("#")

\* the closers of the raw string at p: those after its opening quote
Closers(p) == {c \in (p + 2 + RawHashes(p))..Len(source) : IsCloser(c, RawHashes(p))}

\* where the call of next_token that failed began to read
FailedFrom == IF history = <<>> THEN 0 ELSE history[Len(history)].to

\* C21: raw strings.  A raw string is r, N >= 0 hashes and an opening quote;
\* its token ends with the first quote that N hashes follow, and its text is
\* the characters of the source between the opening quote and that closer,
\* as they are (a backslash stays a backslash); with no closer before the
\* end of the source, next_token raises `unclosed raw string` with a span
\* from the r to the end of the source.
C21_RawString ==
    /\ \A k \in 1..Len(history) :
           \A p \in {history[k].from} :
               IsRawStart(p) =>
                   /\ history[k].tok.type = "raw"
                   /\ Closers(p) # {}
                   /\ \A c \in Closers(p) :
                          (\A d \in Closers(p) : c <= d) =>
                              /\ history[k].to = c + 1 + RawHashes(p)
                              /\ history[k].tok.text =
                                     SubSeq(source, p + 3 + RawHashes(p), c)
                              /\ history[k].tok.span =
                                     Span(ByteOffset(p), ByteOffset(c + 1 + RawHashes(p)))
    /\ (pc = "lexed" /\ IsRawStart(TokenStart(FailedFrom))) =>
           IF Closers(TokenStart(FailedFrom)) = {}
           THEN outcome = Raised(ParseError(Msg("unclosed raw string", <<>>, <<>>),
                                            Span(ByteOffset(TokenStart(FailedFrom)),
                                                 Utf8LenOf(source))))
           ELSE outcome.ok

\* a raw string of two hashes was read whose text holds a backslash and a
\* quote with one hash after it, and that three hashes follow
C21_Witness ==
    /\ source = LexRawTwo
    /\ Len(history) >= 1
    /\ history[1].tok =
           Token("raw", Str(<<"\\", "n", "\"", "#", "a">>), Span(0, 12), FALSE, FALSE)

\* the spans of the opening line of the heredoc at byte b: one span
HeredocMarkers(b) ==
    {Span(b, ByteOffset(n)) :
        n \in {i \in 1..Len(source) :
                  /\ ByteOffset(i - 1) >= b
                  /\ source[i] = Ord("\n")
                  /\ \A j \in 1..(i - 1) : ByteOffset(j - 1) >= b => source[j] # Ord("\n")}}

\* C22: a heredoc as a key.  A key that is a heredoc scalar is rejected with
\* `invalid key`, and the span of the error is the opening line of the
\* heredoc in bytes, from its first < to just after its first newline,
\* whatever stands before the heredoc in the source.
C22_HeredocKeySpan ==
    (pc = "entries" /\ current.type = "heredoc") =>
        \A r \in {Self("_parse_entry_with_path_check", source, TheParser, ThePathState),
                  Self("_parse_entry_with_dup_check", source, TheParser, <<>>)} :
            /\ ~r.ok
            /\ r.err.msg = Msg("invalid key", <<>>, <<>>)
            /\ r.err.span \in HeredocMarkers(current.span.start)

\* the errors of a namespace: of seen_keys and of the PathState
NamespaceErrors == {"duplicate key", "cannot reopen path", "cannot nest into"}

\* the seen_keys of an object after an entry with the dotted key `token`
SeenAfter(token) == Seen(<<>>, Split(token.text, Ord("."))[1], token.span)

\* the current token is a bare scalar with a dot and no empty segment
AtDottedKey ==
    /\ pc = "entries"
    /\ current.type = "scalar"
    /\ HasDot(current.text)
    /\ ~HasEmptySegment(Split(current.text, Ord(".")))

\* What the entry parser of an object gives for the dotted key `token` under
\* seen_keys: `duplicate key` at the key's span when the first segment is in
\* seen_keys; otherwise the first segment is recorded, and an error can only
\* come from the value.
DottedKeyInObject(r, token, seen_keys) ==
    IF Split(token.text, Ord("."))[1] \in DOMAIN seen_keys
    THEN /\ ~r.ok
         /\ r.err = ParseError(Msg("duplicate key", <<>>, <<>>), token.span)
         /\ r.seen = seen_keys
    ELSE /\ r.ok =>
                /\ ~r.none
                /\ r.seen = Seen(seen_keys, Split(token.text, Ord("."))[1], token.span)
                /\ r.val.key.payload.text = Split(token.text, Ord("."))[1]
         /\ ~r.ok => r.err.msg.text \notin NamespaceErrors

\* C23 as stated: dotted keys in an object.  Inside one { } object, two
\* entries with dotted keys that share their first segment (a.b, then a.c)
\* are both accepted.
C23_SharedFirstSegmentAccepted ==
    /\ AtDottedKey =>
           Self("_parse_entry_with_dup_check", source, TheParser,
                SeenAfter(current)).err.msg.text \notin NamespaceErrors
    /\ (Done /\ source = DocRootDotted) =>
           /\ outcome.returned
           /\ Len(outcome.doc.entries[1].value.payload.entries) = 2

\* C23: dotted keys in an object.  Inside one { } object, a dotted key whose
\* first segment is already a key of the object (a plain key, or the first
\* segment of an earlier dotted key) is rejected with `duplicate key` at the
\* span of the dotted key: a.b followed by a.c fails.  This check of the
\* first segment is the only check of the namespace: the error is never one
\* of the closure (reopen) check or of the nest-into-terminal check, and a
\* dotted key with a new first segment is accepted.
C23_SharedFirstSegmentRejected ==
    /\ AtDottedKey =>
           \A seen_keys \in {<<>>, SeenAfter(current),
                             Seen(SeenAfter(current), Str(<<"x">>), Span(0, 1)),
                             Seen(<<>>, current.text, Span(0, 1))} :
               DottedKeyInObject(Self("_parse_entry_with_dup_check", source, TheParser,
                                      seen_keys),
                                 current, seen_keys)
    /\ Done =>
           /\ source = DocRootDotted =>
                  outcome = Raised(ParseError(Msg("duplicate key", <<>>, <<>>), Span(8, 11)))
           /\ source = DocObjectNested =>
                  outcome = Raised(ParseError(Msg("duplicate key", <<>>, <<>>), Span(10, 15)))
           /\ source = DocObjectTerminal =>
                  outcome = Raised(ParseError(Msg("duplicate key", <<>>, <<>>), Span(6, 9)))
           /\ source = DocObjectReopen =>
                  outcome = Raised(ParseError(Msg("duplicate key", <<>>, <<>>), Span(16, 19)))
           /\ source = DocObjectDistinct =>
                  /\ outcome.returned
                  /\ Len(outcome.doc.entries[1].value.payload.entries) = 2

\* { a.b 1, a.c 2 } was parsed, and a.c was rejected as a duplicate key
C23_Witness ==
    /\ source = DocRootDotted
    /\ Done
    /\ outcome = Raised(ParseError(Msg("duplicate key", <<>>, <<>>), Span(8, 11)))

\* C24: the frame of check_and_update.  A call that raises leaves
\* current_path, closed_paths and assigned_paths as they were; a call that
\* returns changes the kind of no path that was in assigned_paths, and
\* removes nothing from closed_paths or assigned_paths (what was recorded
\* for a path stays as it was).
C24_CheckAndUpdateFrame ==
    [][Len(history') = Len(history) + 1 =>
          IF ~history'[Len(history')].ok
          THEN /\ ~outcome'.ok
               /\ current_path' = current_path
               /\ closed_paths' = closed_paths
               /\ assigned_paths' = assigned_paths
          ELSE /\ closed_paths \subseteq closed_paths'
               /\ DOMAIN assigned_paths \subseteq DOMAIN assigned_paths'
               /\ \A p \in DOMAIN assigned_paths :
                      /\ assigned_paths'[p].kind = assigned_paths[p].kind
                      /\ assigned_paths'[p] = assigned_paths[p]]_vars

\* a.b was recorded, a.a was then recorded under the prefix a, which kept
\* what the first call had recorded for it, and a third call was rejected
\* and left the three paths and the closed path a.b in place
C24_Witness ==
    /\ Len(history) = 3
    /\ history[1].ok /\ history[1].path = <<SegA, SegB>>
    /\ history[2].ok /\ history[2].path = <<SegA, SegA>>
    /\ ~history[3].ok
    /\ assigned_paths[SegA] = [kind |-> "object", span |-> history[1].span]
    /\ DOMAIN assigned_paths = {SegA, Str(<<"a", ".", "b">>), Str(<<"a", ".", "a">>)}
    /\ closed_paths = {Str(<<"a", ".", "b">>)}
    /\ ThePathState = history[3].before

\* C25: the tokens of a source.  Of the calls of next_token so far, none of
\* which raised: each token but EOF has a span that is not empty, each span
\* starts at or after the end of the span before it, had_newline_before
\* implies had_whitespace_before, after an EOF every call returns EOF with
\* the same span, and EOF is returned after at most as many calls as the
\* source has characters, plus one.
C25_TokenSequence ==
    \A k \in 1..Len(history) :
        /\ history[k].tok.type # "eof" =>
               /\ history[k].tok.span.end > history[k].tok.span.start
               /\ k <= Len(source)
        /\ history[k].tok.had_newline_before => history[k].tok.had_whitespace_before
        /\ k > 1 =>
               /\ history[k].tok.span.start >= history[k - 1].tok.span.end
               /\ history[k - 1].tok.type = "eof" =>
                      /\ history[k].tok.type = "eof"
                      /\ history[k].tok.span = history[k - 1].tok.span

\* a source with a character of two bytes gave three tokens, one of
\* them after a newline, and then EOF at each of two calls
C25_Witness ==
    /\ Len(history) = 5
    /\ Utf8LenOf(source) > Len(source)
    /\ history[1].tok.type = "scalar"
    /\ \E k \in 2..3 : history[k].tok.had_newline_before
    /\ history[3].tok.type # "eof"
    /\ history[4].tok.type = "eof"
    /\ history[5].tok = history[4].tok
    /\ pc = "lexed"

=============================================================================
